------------------------------ MODULE WireProofs ------------------------------
(***************************************************************************)
(* Proofs about the two modules of a connection's bytes.                   *)
(* Transport.tla, for any transfers, buffers and bytes: every handler is   *)
(* called once, every total is within its buffer, and the bytes moved are  *)
(* the next ones, each once and in order.  Message.tla, for any messages,  *)
(* fields, bodies and histories of calls: it implements MessagePromise, as *)
(* long as no header is written through a reference of an earlier call.    *)
(***************************************************************************)
EXTENDS Transport, Message, TLAPS, SequenceTheorems, FiniteSetTheorems

Faults ==
    {"none", "eof", "connection_reset", "broken_pipe", "operation_aborted", "bad_descriptor",
     "failed", "thrown", "message_size", "io_error", "Eof", "Canceled", "ConnectionReset",
     "IoError", "InvalidArgument"}
Answers == [n : Nat, Ec : Faults]

\* The records of the transfers; the bytes come later.
Records(G) ==
    [phase : {"new", "waiting", "answered", "done"}, op : {"read", "write"},
     way : {"all", "some", "bridge"}, size : Nat, total : Nat, got : G, Ec : Faults,
     answer : Answers, held : BOOLEAN, called : Nat]
IsTransfer(x) == x \in Records({x.got})

\* What every step keeps of a transfer that goes on: its handler is held and was not
\* called, and what a Reliable answers fits into what is left of the buffer.
GoesOn(x) ==
    /\ x.phase # "done" /\ x.Ec = "none" /\ x.called = 0
    /\ x.held <=> x.way # "all"
    /\ x.total <= x.size
    /\ x.way # "all" => x.total = 0
    /\ x.way = "some" => layer = "Reliable"
    /\ x.way = "bridge" => layer = "custom"
Ends(x) == x.phase = "done" /\ CalledOnce(x) /\ TotalRight(x) /\ (x.way # "all" => ~x.held)
Fits(x) == layer = "Reliable" /\ x.phase = "answered" => x.answer.n <= x.size - x.total
Sound(x) == IsTransfer(x) /\ x.phase # "new" /\ ((GoesOn(x) /\ Fits(x)) \/ Ends(x))

IInv ==
    /\ layer \in {"Reliable", "custom"}
    /\ DOMAIN transfer = Transfers
    /\ \A t \in Transfers : transfer[t] = Unused \/ Sound(transfer[t])

LEMMA AnswerType ==
    ASSUME NEW n \in Nat, NEW Ec \in Faults
    PROVE  [n |-> n, Ec |-> Ec] \in Answers
BY DEF Answers

\* A record with another set of bytes.
LEMMA RecordOfItsBytes ==
    ASSUME NEW G, NEW x \in Records(G)
    PROVE  IsTransfer(x)
BY DEF Records, IsTransfer

\* An answer, of a layer that keeps to the buffer if it is a Reliable.
LEMMA AnsweredSound ==
    ASSUME NEW x, IsTransfer(x), GoesOn(x), NEW a \in Answers,
           layer = "Reliable" => a.n <= x.size - x.total
    PROVE  Sound([x EXCEPT !.phase = "answered", !.answer = a])
<1> DEFINE y == [x EXCEPT !.phase = "answered", !.answer = a]
<1>1. y \in Records({x.got})
  BY DEF IsTransfer, Records
<1>2. /\ y.phase = "answered" /\ y.answer = a /\ y.Ec = x.Ec /\ y.called = x.called
      /\ y.held = x.held /\ y.way = x.way /\ y.total = x.total /\ y.size = x.size
  BY DEF IsTransfer, Records
<1>3. GoesOn(y) /\ Fits(y)
  BY <1>2 DEF GoesOn, Fits
<1> QED BY <1>1, <1>2, <1>3, RecordOfItsBytes DEF Sound

\* The end of a whole transfer, with an error or with all of it.
LEMMA WholeEnds ==
    ASSUME NEW x, IsTransfer(x), GoesOn(x), x.way = "all", NEW Ec \in Faults,
           Ec = "none" => x.total = x.size
    PROVE  Sound([x EXCEPT !.phase = "done", !.Ec = Ec])
<1> DEFINE y == [x EXCEPT !.phase = "done", !.Ec = Ec]
<1>1. y \in Records({x.got})
  BY DEF IsTransfer, Records
<1>2. /\ y.phase = "done" /\ y.Ec = Ec /\ y.called = x.called
      /\ y.way = x.way /\ y.total = x.total /\ y.size = x.size
  BY DEF IsTransfer, Records
<1>3. Ends(y)
  BY <1>2 DEF Ends, CalledOnce, TotalRight, GoesOn
<1> QED BY <1>1, <1>2, <1>3, RecordOfItsBytes DEF Sound

\* CompletionState gives up the handler before it calls it.
LEMMA CompleteSound ==
    ASSUME NEW x, IsTransfer(x), GoesOn(x), x.way # "all",
           NEW Ec \in Faults, NEW bytes \in Nat, layer = "Reliable" => bytes <= x.size
    PROVE  Sound(Complete(x, Ec, bytes)) /\ ~Complete(x, Ec, bytes).held
<1> DEFINE y == [x EXCEPT !.phase = "done", !.held = FALSE, !.called = x.called + 1,
                          !.Ec = Ec, !.total = bytes]
<1>1. Complete(x, Ec, bytes) = y
  BY DEF Complete, GoesOn
<1>2. x.called = 0 /\ x.called + 1 = 1 /\ x.called + 1 \in Nat
  BY DEF GoesOn
<1>3. y \in Records({x.got})
  BY <1>2 DEF IsTransfer, Records
<1>4. /\ y.phase = "done" /\ y.called = 1 /\ y.total = bytes
      /\ y.way = x.way /\ y.size = x.size
  BY <1>2 DEF IsTransfer, Records
<1>5. ~y.held
  BY Zenon DEF IsTransfer, Records
<1>6. Ends(y)
  BY <1>4, <1>5 DEF Ends, CalledOnce, TotalRight
<1> QED BY <1>1, <1>3, <1>4, <1>5, <1>6, RecordOfItsBytes DEF Sound

\* The next read or write: refused, answered at once, or waiting.
LEMMA AskSound ==
    ASSUME NEW x, IsTransfer(x), GoesOn(x), layer \in {"Reliable", "custom"}
    PROVE  Sound(Ask(x))
<1> x.size \in Nat /\ x.total \in Nat /\ x.way \in {"all", "some", "bridge"}
  BY DEF IsTransfer, Records
<1>1. CASE layer = "Reliable" /\ socket = "none" /\ x.way = "some"
  <2>1. Ask(x) = Complete(x, "operation_aborted", 0)
    BY <1>1 DEF Ask
  <2> QED BY <1>1, <2>1, CompleteSound DEF Faults
<1>2. CASE layer = "Reliable" /\ socket = "none" /\ x.way # "some"
  <2>1. Ask(x) = [x EXCEPT !.phase = "done", !.Ec = "InvalidArgument"]
    BY <1>2 DEF Ask
  <2>2. x.way = "all"
    BY <1>2 DEF GoesOn
  <2> QED BY <2>1, <2>2, WholeEnds DEF Faults
<1>3. CASE layer = "Reliable" /\ socket = "closed"
  <2> DEFINE a == [n |-> 0, Ec |-> "bad_descriptor"]
  <2>1. Ask(x) = [x EXCEPT !.phase = "answered", !.answer = a]
    BY <1>3 DEF Ask
  <2>2. a \in Answers /\ a.n = 0
    BY DEF Answers, Faults
  <2>3. a.n <= x.size - x.total
    BY <2>2 DEF GoesOn
  <2> HIDE DEF a
  <2>4. Sound([x EXCEPT !.phase = "answered", !.answer = a])
    BY <2>2, <2>3, AnsweredSound
  <2> QED BY <2>1, <2>4
<1>4. CASE layer = "Reliable" /\ socket \notin {"none", "closed"} /\ Remaining(x).size = 0
  <2> DEFINE a == [n |-> 0, Ec |-> "none"]
  <2>1. Ask(x) = [x EXCEPT !.phase = "answered", !.answer = a]
    BY <1>4 DEF Ask
  <2>2. a \in Answers /\ a.n = 0
    BY DEF Answers, Faults
  <2>3. a.n <= x.size - x.total
    BY <2>2 DEF GoesOn
  <2> HIDE DEF a
  <2>4. Sound([x EXCEPT !.phase = "answered", !.answer = a])
    BY <2>2, <2>3, AnsweredSound
  <2> QED BY <2>1, <2>4
<1>5. CASE layer # "Reliable" \/ (socket \notin {"none", "closed"} /\ Remaining(x).size # 0)
  <2> DEFINE y == [x EXCEPT !.phase = "waiting"]
  <2>1. Ask(x) = y
    BY <1>5 DEF Ask
  <2>2. y \in Records({x.got})
    BY DEF IsTransfer, Records
  <2>3. /\ y.phase = "waiting" /\ y.Ec = x.Ec /\ y.called = x.called
        /\ y.held = x.held /\ y.way = x.way /\ y.total = x.total /\ y.size = x.size
    BY DEF IsTransfer, Records
  <2>4. GoesOn(y) /\ Fits(y)
    BY <2>3 DEF GoesOn, Fits
  <2> QED BY <2>1, <2>2, <2>3, <2>4, RecordOfItsBytes DEF Sound
<1> QED BY <1>1, <1>2, <1>3, <1>4, <1>5

LEMMA LoopSound ==
    ASSUME NEW x, IsTransfer(x), GoesOn(x), x.way = "all", layer \in {"Reliable", "custom"}
    PROVE  Sound(Loop(x))
<1>1. CASE x.total < x.size
  BY <1>1, AskSound DEF Loop
<1>2. CASE ~(x.total < x.size)
  <2> DEFINE y == [x EXCEPT !.phase = "done"]
  <2>1. Loop(x) = y
    BY <1>2 DEF Loop
  <2>2. y \in Records({x.got})
    BY DEF IsTransfer, Records
  <2>3. /\ y.phase = "done" /\ y.called = x.called
        /\ y.way = x.way /\ y.total = x.total /\ y.size = x.size
    BY DEF IsTransfer, Records
  <2>4. x.size \in Nat /\ x.total \in Nat
    BY DEF IsTransfer, Records
  <2>5. Ends(y)
    BY <1>2, <2>3, <2>4 DEF Ends, CalledOnce, TotalRight, GoesOn
  <2> QED BY <2>1, <2>2, <2>3, <2>5, RecordOfItsBytes DEF Sound
<1> QED BY <1>1, <1>2

\* Every way a round may go on: too many bytes, an error, none at all, or the next round.
LEMMA RoundSound ==
    ASSUME NEW x, IsTransfer(x), GoesOn(x), x.way = "all", layer \in {"Reliable", "custom"}
    PROVE  Sound(Round(x))
<1> DEFINE n == x.answer.n
           Ec == IF layer = "Reliable" THEN ToCode(x.answer.Ec) ELSE x.answer.Ec
           more == [x EXCEPT !.total = @ + n]
<1>1. n \in Nat /\ x.answer.Ec \in Faults /\ x.size \in Nat /\ x.total \in Nat
  BY DEF IsTransfer, Records, Answers
<1>2. Ec \in Faults
  BY <1>1 DEF ToCode, Faults
<1>3. CASE n > Remaining(x).size
  <2>1. Round(x) = [x EXCEPT !.phase = "done", !.Ec = "message_size"]
    BY <1>3 DEF Round
  <2>2. "message_size" \in Faults
    BY DEF Faults
  <2>3. Sound([x EXCEPT !.phase = "done", !.Ec = "message_size"])
    BY <2>2, WholeEnds
  <2> QED BY <2>1, <2>3
<1>4. CASE ~(n > Remaining(x).size)
  <2>1. x.total + n \in Nat /\ x.total + n <= x.size
    BY <1>1, <1>4 DEF Remaining
  <2>2. more \in Records({x.got})
    BY <2>1 DEF IsTransfer, Records
  <2>3. /\ more.phase = x.phase /\ more.Ec = x.Ec /\ more.called = x.called
        /\ more.held = x.held /\ more.way = x.way /\ more.total = x.total + n
        /\ more.size = x.size
    BY DEF IsTransfer, Records
  <2>4. IsTransfer(more) /\ GoesOn(more) /\ more.way = "all"
    BY <2>1, <2>2, <2>3, RecordOfItsBytes DEF GoesOn
  <2>5. CASE Ec # "none"
    <3>1. Round(x) = [more EXCEPT !.phase = "done", !.Ec = Ec]
      BY <1>4, <2>5 DEF Round
    <3> HIDE DEF more, Ec
    <3>2. Sound([more EXCEPT !.phase = "done", !.Ec = Ec])
      BY <1>2, <2>4, <2>5, WholeEnds
    <3> QED BY <3>1, <3>2
  <2>6. CASE Ec = "none" /\ n = 0
    <3>1. Round(x) = [x EXCEPT !.phase = "done", !.Ec = "io_error"]
      BY <1>4, <2>6 DEF Round
    <3>2. "io_error" \in Faults
      BY DEF Faults
    <3>3. Sound([x EXCEPT !.phase = "done", !.Ec = "io_error"])
      BY <3>2, WholeEnds
    <3> QED BY <3>1, <3>3
  <2>7. CASE Ec = "none" /\ n # 0
    <3>1. Round(x) = Loop(more)
      BY <1>4, <2>7 DEF Round
    <3> HIDE DEF more
    <3> QED BY <2>4, <3>1, LoopSound
  <2> QED BY <2>5, <2>6, <2>7
<1> QED BY <1>3, <1>4

LEMMA NewGoesOn ==
    ASSUME NEW op \in {"read", "write"}, NEW way \in {"all", "some", "bridge"},
           NEW size \in Sizes,
           way = "some" => layer = "Reliable", way = "bridge" => layer = "custom"
    PROVE  IsTransfer(New(op, way, size)) /\ GoesOn(New(op, way, size))
<1> DEFINE y == New(op, way, size)
           a == [n |-> 0, Ec |-> "none"]
<1>1. size \in Nat
  BY TransportAssumption
<1>2. a \in Answers
  BY DEF Answers, Faults
<1>3. y \in Records({<<>>})
  <2> HIDE DEF a
  <2>1. y = [phase |-> "new", op |-> op, way |-> way, size |-> size, total |-> 0,
             got |-> <<>>, Ec |-> "none", answer |-> a, held |-> way # "all", called |-> 0]
    BY DEF New, a
  <2>2. "none" \in Faults
    BY DEF Faults
  <2> HIDE DEF y
  <2> QED BY <1>1, <1>2, <2>1, <2>2 DEF Records
<1>4. /\ y.phase = "new" /\ y.Ec = "none" /\ y.called = 0 /\ y.total = 0 /\ y.size = size
      /\ y.way = way
  BY DEF New
<1>5. y.held <=> way # "all"
  BY Zenon DEF New
<1>6. GoesOn(y)
  BY <1>1, <1>4, <1>5 DEF GoesOn
<1> QED BY <1>3, <1>6, RecordOfItsBytes

\* Bytes that the socket or a transmission delivers within the buffer.
LEMMA FilledSound ==
    ASSUME NEW x, IsTransfer(x), GoesOn(x), NEW n \in Nat, n <= x.size - x.total
    PROVE  Sound(Filled(x, n))
<1> DEFINE g == SubSeq(x.got, 1, Remaining(x).from) \o SubSeq(Buffered, 1, n)
           a == [n |-> n, Ec |-> "none"]
           y == [x EXCEPT !.phase = "answered", !.answer = a, !.got = g]
<1>1. Filled(x, n) = y
  BY DEF Filled
<1>2. a \in Answers /\ a.n = n
  BY DEF Answers, Faults
<1> HIDE DEF a, g
<1>3. y \in Records({g})
  BY <1>2 DEF IsTransfer, Records
<1>4. /\ y.phase = "answered" /\ y.answer = a /\ y.Ec = x.Ec /\ y.called = x.called
      /\ y.held = x.held /\ y.way = x.way /\ y.total = x.total /\ y.size = x.size
  BY DEF IsTransfer, Records
<1>5. GoesOn(y) /\ Fits(y)
  BY <1>2, <1>4 DEF GoesOn, Fits
<1> QED BY <1>1, <1>3, <1>4, <1>5, RecordOfItsBytes DEF Sound

\* An answer or abort without bytes.
LEMMA EmptyAnswerSound ==
    ASSUME NEW x, IsTransfer(x), GoesOn(x), NEW Ec \in Faults
    PROVE  Sound(WithAnswer(x, 0, Ec))
<1> DEFINE a == [n |-> 0, Ec |-> Ec]
<1>1. WithAnswer(x, 0, Ec) = [x EXCEPT !.phase = "answered", !.answer = a]
  BY DEF WithAnswer
<1>2. a \in Answers /\ a.n = 0
  BY DEF Answers
<1>3. x.size \in Nat /\ x.total \in Nat
  BY DEF IsTransfer, Records
<1>4. a.n <= x.size - x.total
  BY <1>2, <1>3 DEF GoesOn
<1> HIDE DEF a
<1>5. Sound([x EXCEPT !.phase = "answered", !.answer = a])
  BY <1>2, <1>4, AnsweredSound
<1> QED BY <1>1, <1>5

LEMMA AbortedSound ==
    ASSUME NEW x, x = Unused \/ Sound(x)
    PROVE  Aborted(x) = Unused \/ Sound(Aborted(x))
<1>1. CASE x.phase = "waiting"
  <2>1. IsTransfer(x) /\ GoesOn(x)
    BY <1>1 DEF Unused, Sound, Ends
  <2>2. Sound(WithAnswer(x, 0, "operation_aborted"))
    BY <2>1, EmptyAnswerSound DEF Faults
  <2> QED BY <1>1, <2>2 DEF Aborted
<1>2. CASE x.phase # "waiting"
  BY <1>2 DEF Aborted
<1> QED BY <1>1, <1>2

\* What is sound stays so while the layer does.
LEMMA LayerKeepsSound ==
    ASSUME layer' = layer, NEW t, Sound(transfer'[t])
    PROVE  Sound(transfer[t])'
BY DEF Sound, IsTransfer, GoesOn, Fits, Ends, CalledOnce, TotalRight

\* A step that changes one transfer, and leaves the layer as it is.
LEMMA OneChanges ==
    ASSUME IInv, layer' = layer, NEW t \in Transfers, NEW y, Sound(y),
           transfer' = [transfer EXCEPT ![t] = y]
    PROVE  IInv'
<1>1. layer' \in {"Reliable", "custom"} /\ DOMAIN transfer' = Transfers
  BY DEF IInv
<1>2. ASSUME NEW u \in Transfers
      PROVE  (transfer[u] = Unused \/ Sound(transfer[u]))'
  <2>1. transfer'[u] = IF u = t THEN y ELSE transfer[u]
    BY DEF IInv
  <2>2. CASE u = t
    BY <2>1, <2>2, LayerKeepsSound
  <2>3. CASE u # t
    BY <2>1, <2>3, LayerKeepsSound DEF IInv, Unused
  <2> QED BY <2>2, <2>3
<1> QED BY <1>1, <1>2 DEF IInv

LEMMA AllKept ==
    ASSUME IInv, layer' = layer, transfer' = transfer
    PROVE  IInv'
BY LayerKeepsSound DEF IInv, Unused

LEMMA AllAborted ==
    ASSUME IInv, layer' = layer, transfer' = [t \in Transfers |-> Aborted(transfer[t])]
    PROVE  IInv'
<1> SUFFICES ASSUME NEW t \in Transfers
             PROVE  (transfer[t] = Unused \/ Sound(transfer[t]))'
  BY DEF IInv
<1>1. Aborted(transfer[t]) = Unused \/ Sound(Aborted(transfer[t]))
  BY AbortedSound DEF IInv
<1>2. transfer'[t] = Aborted(transfer[t])
  OBVIOUS
<1> QED BY <1>1, <1>2, LayerKeepsSound DEF Unused

\* One transfer that waits or was answered goes on.
LEMMA WorkingGoesOn ==
    ASSUME IInv, NEW t \in Transfers, transfer[t].phase \in {"waiting", "answered"}
    PROVE  IsTransfer(transfer[t]) /\ GoesOn(transfer[t]) /\ Fits(transfer[t])
BY DEF IInv, Unused, Sound, Ends

-----------------------------------------------------------------------------
LEMMA InitInv == TransportInit => IInv
BY DEF TransportInit, IInv

LEMMA NextInv == IInv /\ [TransportNext]_transportVars => IInv'
<1> SUFFICES ASSUME IInv, [TransportNext]_transportVars PROVE IInv'
  OBVIOUS
<1> layer \in {"Reliable", "custom"}
  BY DEF IInv
<1>1. ASSUME NEW t \in Transfers, StartWhole(t) PROVE IInv'
  <2>1. PICK op \in {"read", "write"}, size \in Sizes :
            transfer' = [transfer EXCEPT ![t] = Loop(New(op, "all", size))]
    BY <1>1 DEF StartWhole
  <2>2. IsTransfer(New(op, "all", size)) /\ GoesOn(New(op, "all", size))
    BY NewGoesOn
  <2>3. New(op, "all", size).way = "all"
    BY DEF New
  <2>4. Sound(Loop(New(op, "all", size)))
    BY <2>2, <2>3, LoopSound
  <2>5. layer' = layer
    BY <1>1 DEF StartWhole, Quietly
  <2> QED BY <2>1, <2>4, <2>5, OneChanges
<1>2. ASSUME NEW t \in Transfers, StartSome(t) PROVE IInv'
  <2>1. PICK op \in {"read", "write"}, size \in Sizes :
            transfer' = [transfer EXCEPT ![t] = Ask(New(op, "some", size))]
    BY <1>2 DEF StartSome
  <2>2. IsTransfer(New(op, "some", size)) /\ GoesOn(New(op, "some", size))
    BY <1>2, NewGoesOn DEF StartSome
  <2>3. Sound(Ask(New(op, "some", size)))
    BY <2>2, AskSound
  <2>4. layer' = layer
    BY <1>2 DEF StartSome, Quietly
  <2> QED BY <2>1, <2>3, <2>4, OneChanges
<1>3. ASSUME NEW t \in Transfers, StartBridged(t) PROVE IInv'
  <2> DEFINE new(op, size) == New(op, "bridge", size)
  <2>1. PICK op \in {"read", "write"}, size \in Sizes :
            \E y \in {Complete(new(op, size), "operation_aborted", 0), Ask(new(op, size)),
                      Complete(Complete(new(op, size), "none", 0), "operation_aborted", 0)} :
                transfer' = [transfer EXCEPT ![t] = y]
    BY <1>3 DEF StartBridged
  <2> DEFINE x == new(op, size)
  <2>2. IsTransfer(x) /\ GoesOn(x) /\ layer = "custom"
    BY <1>3, NewGoesOn DEF StartBridged
  <2>3. x.way = "bridge"
    BY DEF New
  <2> HIDE DEF x
  <2>4. Sound(Ask(x))
    BY <2>2, AskSound
  <2>5. Sound(Complete(x, "operation_aborted", 0))
    BY <2>2, <2>3, CompleteSound DEF Faults
  <2>6. Sound(Complete(x, "none", 0)) /\ ~Complete(x, "none", 0).held
    BY <2>2, <2>3, CompleteSound DEF Faults
  <2>7. Complete(Complete(x, "none", 0), "operation_aborted", 0) = Complete(x, "none", 0)
    <3> DEFINE z == Complete(x, "none", 0)
    <3> HIDE DEF z
    <3>1. ~z.held => Complete(z, "operation_aborted", 0) = z
      BY DEF Complete
    <3> QED BY <2>6, <3>1 DEF z
  <2>8. PICK y : Sound(y) /\ transfer' = [transfer EXCEPT ![t] = y]
    BY <2>1, <2>4, <2>5, <2>6, <2>7 DEF x
  <2>9. layer' = layer
    BY <1>3 DEF StartBridged, Quietly
  <2> QED BY <2>8, <2>9, OneChanges
<1>4. ASSUME NEW t \in Transfers, ReceiveBytes(t) PROVE IInv'
  <2>1. IsTransfer(transfer[t]) /\ GoesOn(transfer[t])
    BY <1>4, WorkingGoesOn DEF ReceiveBytes
  <2>2. PICK n \in 1..Remaining(transfer[t]).size :
            transfer' = [transfer EXCEPT ![t] = Filled(transfer[t], n)]
    BY <1>4 DEF ReceiveBytes
  <2>3. n \in Nat /\ n <= transfer[t].size - transfer[t].total
    BY <2>1 DEF Remaining, IsTransfer, Records
  <2>4. Sound(Filled(transfer[t], n))
    BY <2>1, <2>3, FilledSound
  <2>5. layer' = layer
    BY <1>4 DEF ReceiveBytes
  <2> QED BY <2>2, <2>4, <2>5, OneChanges
<1>5. ASSUME NEW t \in Transfers, SendBytes(t) PROVE IInv'
  <2>1. IsTransfer(transfer[t]) /\ GoesOn(transfer[t])
    BY <1>5, WorkingGoesOn DEF SendBytes
  <2>2. PICK n \in 1..Remaining(transfer[t]).size :
            transfer' = [transfer EXCEPT ![t].phase = "answered",
                                         ![t].answer = [n |-> n, Ec |-> "none"]]
    BY <1>5 DEF SendBytes
  <2> DEFINE a == [n |-> n, Ec |-> "none"]
             y == [transfer[t] EXCEPT !.phase = "answered", !.answer = a]
  <2>3. a \in Answers /\ a.n = n /\ n <= transfer[t].size - transfer[t].total
    BY <2>1 DEF Remaining, IsTransfer, Records, Answers, Faults
  <2>4. transfer' = [transfer EXCEPT ![t] = y]
    BY <2>2 DEF IInv
  <2> HIDE DEF a
  <2>5. Sound(y)
    BY <2>1, <2>3, AnsweredSound
  <2>6. layer' = layer
    BY <1>5 DEF SendBytes
  <2> QED BY <2>4, <2>5, <2>6, OneChanges
<1>6. ASSUME NEW t \in Transfers, SocketFails(t) PROVE IInv'
  <2>1. IsTransfer(transfer[t]) /\ GoesOn(transfer[t])
    BY <1>6, WorkingGoesOn DEF SocketFails
  <2>2. PICK Ec \in {"eof", "connection_reset", "broken_pipe"} :
            transfer' = [transfer EXCEPT ![t] = WithAnswer(transfer[t], 0, Ec)]
    BY <1>6 DEF SocketFails
  <2>3. Sound(WithAnswer(transfer[t], 0, Ec))
    BY <2>1, EmptyAnswerSound DEF Faults
  <2>4. layer' = layer
    BY <1>6 DEF SocketFails, Quietly
  <2> QED BY <2>2, <2>3, <2>4, OneChanges
<1>7. ASSUME NEW t \in Transfers, CustomAnswers(t) PROVE IInv'
  <2> DEFINE x == transfer[t]
             a == [n |-> Remaining(x).size + 1, Ec |-> "none"]
             thrown == [x EXCEPT !.phase = "done", !.Ec = "thrown"]
  <2>1. IsTransfer(x) /\ GoesOn(x) /\ layer = "custom"
    BY <1>7, WorkingGoesOn DEF CustomAnswers
  <2>2. Sound(WithAnswer(x, 0, "none")) /\ Sound(WithAnswer(x, 0, "failed"))
    BY <2>1, EmptyAnswerSound DEF Faults
  <2>3. Sound(WithAnswer(x, Remaining(x).size + 1, "none"))
    <3>1. Remaining(x).size + 1 \in Nat
      BY <2>1 DEF Remaining, IsTransfer, Records, GoesOn
    <3>2. a \in Answers
      BY <3>1, AnswerType DEF Faults
    <3>3. WithAnswer(x, Remaining(x).size + 1, "none")
          = [x EXCEPT !.phase = "answered", !.answer = a]
      BY DEF WithAnswer
    <3> HIDE DEF a
    <3>4. Sound([x EXCEPT !.phase = "answered", !.answer = a])
      BY <2>1, <3>2, AnsweredSound
    <3> QED BY <3>3, <3>4
  <2>4. x.way = "bridge" => Sound(Complete(x, "operation_aborted", 0))
    BY <2>1, CompleteSound DEF Faults
  <2>5. x.way # "bridge" => Sound(thrown)
    BY <2>1, WholeEnds DEF Faults, GoesOn, IsTransfer, Records
  <2>6. \E y \in {WithAnswer(x, 0, "none"), WithAnswer(x, 0, "failed"),
                  WithAnswer(x, Remaining(x).size + 1, "none"),
                  IF x.way = "bridge" THEN Complete(x, "operation_aborted", 0) ELSE thrown} :
            transfer' = [transfer EXCEPT ![t] = y]
    BY <1>7 DEF CustomAnswers
  <2>7. PICK y : Sound(y) /\ transfer' = [transfer EXCEPT ![t] = y]
    <3> HIDE DEF x, thrown
    <3> QED BY <2>2, <2>3, <2>4, <2>5, <2>6
  <2>8. layer' = layer
    BY <1>7 DEF CustomAnswers, Quietly
  <2> QED BY <2>7, <2>8, OneChanges
<1>8. ASSUME NEW t \in Transfers, Resume(t) PROVE IInv'
  <2> DEFINE x == transfer[t]
  <2>1. IsTransfer(x) /\ GoesOn(x) /\ Fits(x) /\ x.phase = "answered"
    BY <1>8, WorkingGoesOn DEF Resume
  <2>2. transfer' = [transfer EXCEPT ![t] =
            IF x.way = "all" THEN Round(x) ELSE Complete(x, x.answer.Ec, x.answer.n)]
    BY <1>8 DEF Resume
  <2>3. layer' = layer
    BY <1>8 DEF Resume, Quietly
  <2>4. CASE x.way = "all"
    <3>1. Sound(Round(x))
      BY <2>1, <2>4, RoundSound
    <3> QED BY <2>2, <2>3, <2>4, <3>1, OneChanges
  <2>5. CASE x.way # "all"
    <3>1. x.answer.Ec \in Faults /\ x.answer.n \in Nat /\ x.size \in Nat
      BY <2>1 DEF IsTransfer, Records, Answers
    <3>2. layer = "Reliable" => x.answer.n <= x.size
      BY <2>1, <2>5, <3>1 DEF Fits, GoesOn
    <3>3. Sound(Complete(x, x.answer.Ec, x.answer.n))
      BY <2>1, <2>5, <3>1, <3>2, CompleteSound
    <3> QED BY <2>2, <2>3, <2>5, <3>3, OneChanges
  <2> QED BY <2>4, <2>5
<1>9. ASSUME NEW t \in Transfers, OwnerCloses(t) PROVE IInv'
  <2>1. transfer' = [transfer EXCEPT ![t] = Aborted(transfer[t])]
    BY <1>9 DEF OwnerCloses
  <2>2. Aborted(transfer[t]) = Unused \/ Sound(Aborted(transfer[t]))
    BY AbortedSound DEF IInv
  <2>3. Aborted(transfer[t]) # Unused
    <3>1. IsTransfer(transfer[t]) /\ transfer[t].phase = "waiting"
      BY <1>9, WorkingGoesOn DEF OwnerCloses
    <3>2. Aborted(transfer[t]).phase = "answered"
      BY <3>1 DEF Aborted, WithAnswer, IsTransfer, Records
    <3> QED BY <3>2 DEF Unused
  <2>4. layer' = layer
    BY <1>9 DEF OwnerCloses, Quietly
  <2> QED BY <2>1, <2>2, <2>3, <2>4, OneChanges
<1>10. CASE Cancel \/ Close
  BY <1>10, AllAborted DEF Cancel, Close, Quietly
<1>11. CASE ShutdownWrite \/ ReleaseSocket \/ Arrive \/ UNCHANGED transportVars
  BY <1>11, AllKept DEF ShutdownWrite, ReleaseSocket, Arrive, transportVars
<1> QED BY <1>1, <1>2, <1>3, <1>4, <1>5, <1>6, <1>7, <1>8, <1>9, <1>10, <1>11 DEF TransportNext

LEMMA Inductive == TransportSpec => []IInv
BY InitInv, NextInv, PTL DEF TransportSpec

-----------------------------------------------------------------------------
\* The bytes.  n of them were moved for a transfer: the ones of the stream after the
\* first b, of which the last is the last one taken while the read goes on, or the first
\* ones of its buffer.
Stream(b, n) == [i \in 1..n |-> b + i]

\* What has been counted of n bytes when a transfer is in this phase; a transmission of
\* the program's own may have claimed more than there was room for.
Due(x, n) ==
    /\ x.phase \in {"new", "waiting"} => n = x.total
    /\ x.phase = "answered" => n = x.total + x.answer.n \/ x.answer.n > x.size - x.total
    /\ x.phase = "done" =>
        /\ layer = "Reliable" => n = x.total
        /\ x.way = "all" /\ x.Ec = "none" => n = x.size
Carries(t, x, n) ==
    /\ x.op = "read" => \E b \in Int : x.got = Stream(b, n) /\ (Working(x) => b + n = taken)
    /\ x.op = "write" => x.got = <<>> /\ n <= Len(wire) /\ OnWire(t, n)
    /\ Due(x, n)

\* One read and one write at a time: otherwise the last byte taken may be another's.
Alone ==
    \A t, u \in Transfers :
        Working(transfer[t]) /\ Working(transfer[u]) /\ transfer[t].op = transfer[u].op => t = u
StreamInv ==
    /\ taken \in Nat /\ arrived \in Nat /\ taken <= arrived /\ arrived <= MaxArrivals
    /\ wire \in Seq(Transfers \X Nat)
Moved(t) ==
    IF transfer[t] = Unused THEN OnWire(t, 0) ELSE \E n \in Nat : Carries(t, transfer[t], n)
BytesInv == StreamInv /\ Alone /\ \A t \in Transfers : Moved(t)

\* The same bytes, counted as they are due.
Follows(x, y, n) == y.got = x.got /\ y.op = x.op /\ Due(y, n)

LEMMA CompleteFollows ==
    ASSUME NEW x, IsTransfer(x), GoesOn(x), x.way # "all", NEW Ec \in Faults, NEW n \in Nat,
           NEW bytes \in Nat, layer = "Reliable" => n = bytes
    PROVE  Follows(x, Complete(x, Ec, bytes), n)
<1> DEFINE y == [x EXCEPT !.phase = "done", !.held = FALSE, !.called = x.called + 1,
                          !.Ec = Ec, !.total = bytes]
<1>1. Complete(x, Ec, bytes) = y
  BY DEF Complete, GoesOn
<1>2. /\ y.phase = "done" /\ y.total = bytes /\ y.way = x.way /\ y.got = x.got /\ y.op = x.op
  BY DEF IsTransfer, Records
<1> HIDE DEF y
<1> QED
  BY <1>1, <1>2 DEF Follows, Due

LEMMA AnsweredFollows ==
    ASSUME NEW x, IsTransfer(x), NEW n \in Nat, NEW a \in Answers,
           n = x.total + a.n \/ a.n > x.size - x.total
    PROVE  Follows(x, [x EXCEPT !.phase = "answered", !.answer = a], n)
<1> DEFINE y == [x EXCEPT !.phase = "answered", !.answer = a]
<1>1. /\ y.phase = "answered" /\ y.answer = a /\ y.total = x.total /\ y.size = x.size
      /\ y.got = x.got /\ y.op = x.op
  BY DEF IsTransfer, Records
<1> HIDE DEF y
<1>2. Follows(x, y, n)
  BY <1>1 DEF Follows, Due
<1> QED
  BY <1>2 DEF y

LEMMA EmptyAnswerFollows ==
    ASSUME NEW x, IsTransfer(x), NEW n \in Nat, n = x.total, NEW Ec \in Faults
    PROVE  Follows(x, WithAnswer(x, 0, Ec), n)
<1> DEFINE a == [n |-> 0, Ec |-> Ec]
<1>1. WithAnswer(x, 0, Ec) = [x EXCEPT !.phase = "answered", !.answer = a]
  BY DEF WithAnswer
<1>2. a \in Answers /\ a.n = 0
  BY DEF Answers
<1> HIDE DEF a
<1>3. n = x.total + a.n
  BY <1>2
<1>4. Follows(x, [x EXCEPT !.phase = "answered", !.answer = a], n)
  BY <1>2, <1>3, AnsweredFollows
<1> QED
  BY <1>1, <1>4

LEMMA WholeEndFollows ==
    ASSUME NEW x, IsTransfer(x), NEW n \in Nat, NEW Ec \in Faults,
           layer = "Reliable" => n = x.total, x.way = "all" /\ Ec = "none" => n = x.size
    PROVE  Follows(x, [x EXCEPT !.phase = "done", !.Ec = Ec], n)
<1> DEFINE y == [x EXCEPT !.phase = "done", !.Ec = Ec]
<1>1. /\ y.phase = "done" /\ y.Ec = Ec /\ y.total = x.total /\ y.size = x.size
      /\ y.way = x.way /\ y.got = x.got /\ y.op = x.op
  BY DEF IsTransfer, Records
<1> HIDE DEF y
<1>2. Follows(x, y, n)
  BY <1>1 DEF Follows, Due
<1> QED
  BY <1>2 DEF y

\* The next round begins with all bytes counted.
LEMMA AskFollows ==
    ASSUME NEW x, IsTransfer(x), GoesOn(x), layer \in {"Reliable", "custom"},
           NEW n \in Nat, n = x.total
    PROVE  Follows(x, Ask(x), n)
<1>1. x.size \in Nat /\ x.total \in Nat /\ x.way \in {"all", "some", "bridge"}
  BY DEF IsTransfer, Records
<1>2. CASE layer = "Reliable" /\ socket = "none" /\ x.way = "some"
  <2>1. Ask(x) = Complete(x, "operation_aborted", 0)
    BY <1>2 DEF Ask
  <2>2. n = 0
    BY <1>2 DEF GoesOn
  <2> QED
    BY <1>2, <2>1, <2>2, CompleteFollows DEF Faults
<1>3. CASE layer = "Reliable" /\ socket = "none" /\ x.way # "some"
  <2>1. Ask(x) = [x EXCEPT !.phase = "done", !.Ec = "InvalidArgument"]
    BY <1>3 DEF Ask
  <2>2. "InvalidArgument" \in Faults
    BY DEF Faults
  <2>3. Follows(x, [x EXCEPT !.phase = "done", !.Ec = "InvalidArgument"], n)
    BY <2>2, WholeEndFollows
  <2> QED
    BY <2>1, <2>3
<1>4. CASE layer = "Reliable" /\ socket = "closed"
  <2>1. Ask(x) = WithAnswer(x, 0, "bad_descriptor")
    BY <1>4 DEF Ask, WithAnswer
  <2> QED
    BY <2>1, EmptyAnswerFollows DEF Faults
<1>5. CASE layer = "Reliable" /\ socket \notin {"none", "closed"} /\ Remaining(x).size = 0
  <2>1. Ask(x) = WithAnswer(x, 0, "none")
    BY <1>5 DEF Ask, WithAnswer
  <2> QED
    BY <2>1, EmptyAnswerFollows DEF Faults
<1>6. CASE layer # "Reliable" \/ (socket \notin {"none", "closed"} /\ Remaining(x).size # 0)
  <2> DEFINE y == [x EXCEPT !.phase = "waiting"]
  <2>1. Ask(x) = y
    BY <1>6 DEF Ask
  <2>2. y.phase = "waiting" /\ y.total = x.total /\ y.got = x.got /\ y.op = x.op
    BY DEF IsTransfer, Records
  <2> HIDE DEF y
  <2> QED
    BY <2>1, <2>2 DEF Follows, Due
<1> QED
  BY <1>2, <1>3, <1>4, <1>5, <1>6

LEMMA LoopFollows ==
    ASSUME NEW x, IsTransfer(x), GoesOn(x), x.way = "all", layer \in {"Reliable", "custom"},
           NEW n \in Nat, n = x.total
    PROVE  Follows(x, Loop(x), n)
<1>1. CASE x.total < x.size
  BY <1>1, AskFollows DEF Loop
<1>2. CASE ~(x.total < x.size)
  <2> DEFINE y == [x EXCEPT !.phase = "done"]
  <2>1. Loop(x) = y
    BY <1>2 DEF Loop
  <2>2. /\ y.phase = "done" /\ y.total = x.total /\ y.size = x.size
        /\ y.got = x.got /\ y.op = x.op
    BY DEF IsTransfer, Records
  <2>3. x.size \in Nat /\ x.total \in Nat
    BY DEF IsTransfer, Records
  <2>4. n = x.size
    BY <1>2, <2>3 DEF GoesOn
  <2> HIDE DEF y
  <2> QED
    BY <2>1, <2>2, <2>4 DEF Follows, Due
<1> QED
  BY <1>1, <1>2

\* A round counts what it was answered, or ends.
LEMMA RoundFollows ==
    ASSUME NEW x, IsTransfer(x), GoesOn(x), Fits(x), x.way = "all", x.phase = "answered",
           layer \in {"Reliable", "custom"}, NEW m \in Nat, Due(x, m)
    PROVE  Follows(x, Round(x), m)
<1> DEFINE n == x.answer.n
           Ec == IF layer = "Reliable" THEN ToCode(x.answer.Ec) ELSE x.answer.Ec
           more == [x EXCEPT !.total = @ + n]
<1>1. n \in Nat /\ x.answer.Ec \in Faults /\ x.size \in Nat /\ x.total \in Nat
  BY DEF IsTransfer, Records, Answers
<1>2. Ec \in Faults
  BY <1>1 DEF ToCode, Faults
<1>3. CASE n > Remaining(x).size
  <2>1. Round(x) = [x EXCEPT !.phase = "done", !.Ec = "message_size"]
    BY <1>3 DEF Round
  <2>2. "message_size" \in Faults /\ layer # "Reliable"
    BY <1>1, <1>3 DEF Faults, Fits, Remaining
  <2>3. Follows(x, [x EXCEPT !.phase = "done", !.Ec = "message_size"], m)
    BY <2>2, WholeEndFollows
  <2> QED
    BY <2>1, <2>3
<1>4. CASE ~(n > Remaining(x).size)
  <2>1. x.total + n \in Nat /\ x.total + n <= x.size /\ m = x.total + n
    BY <1>1, <1>4 DEF Remaining, Due
  <2>2. more \in Records({x.got})
    BY <2>1 DEF IsTransfer, Records
  <2>3. /\ more.phase = x.phase /\ more.Ec = x.Ec /\ more.called = x.called
        /\ more.held = x.held /\ more.way = x.way /\ more.total = x.total + n
        /\ more.size = x.size /\ more.got = x.got /\ more.op = x.op
    BY DEF IsTransfer, Records
  <2>4. IsTransfer(more) /\ GoesOn(more) /\ more.way = "all"
    BY <2>1, <2>2, <2>3, RecordOfItsBytes DEF GoesOn
  <2> HIDE DEF more, Ec
  <2>5. CASE Ec # "none"
    <3>1. Round(x) = [more EXCEPT !.phase = "done", !.Ec = Ec]
      BY <1>4, <2>5 DEF Round, more, Ec
    <3>2. Follows(more, [more EXCEPT !.phase = "done", !.Ec = Ec], m)
      BY <1>2, <2>1, <2>3, <2>4, <2>5, WholeEndFollows
    <3> QED
      BY <2>3, <3>1, <3>2 DEF Follows
  <2>6. CASE Ec = "none" /\ n = 0
    <3>1. Round(x) = [x EXCEPT !.phase = "done", !.Ec = "io_error"]
      BY <1>4, <2>6 DEF Round, Ec
    <3>2. "io_error" \in Faults /\ "io_error" # "none" /\ m = x.total
      BY <1>1, <2>1, <2>6 DEF Faults
    <3>3. Follows(x, [x EXCEPT !.phase = "done", !.Ec = "io_error"], m)
      BY <3>2, WholeEndFollows
    <3> QED
      BY <3>1, <3>3
  <2>7. CASE Ec = "none" /\ n # 0
    <3>1. Round(x) = Loop(more)
      BY <1>4, <2>7 DEF Round, more, Ec
    <3>2. Follows(more, Loop(more), m)
      BY <2>1, <2>3, <2>4, LoopFollows
    <3> QED
      BY <2>3, <3>1, <3>2 DEF Follows
  <2> QED
    BY <2>5, <2>6, <2>7
<1> QED
  BY <1>3, <1>4

-----------------------------------------------------------------------------
\* What is on the wire of a transfer stays there while nothing else is sent.
LEMMA CarriesKept ==
    ASSUME layer' = layer, wire' = wire, taken' = taken, NEW t, NEW x, NEW y, NEW n \in Nat,
           Carries(t, x, n), Follows(x, y, n), Working(y) => Working(x)
    PROVE  Carries(t, y, n)'
<1>1. y.op = "read" => \E b \in Int : y.got = Stream(b, n) /\ (Working(y) => b + n = taken')
  BY DEF Carries, Follows
<1>2. y.op = "write" => y.got = <<>> /\ n <= Len(wire') /\ OnWire(t, n)'
  BY DEF Carries, Follows, OnWire
<1>3. Due(y, n)'
  BY DEF Follows, Due
<1> QED
  BY <1>1, <1>2, <1>3 DEF Carries

\* A transfer that nothing was done to.
LEMMA MovedKept ==
    ASSUME layer' = layer, wire' = wire, taken' = taken, NEW t, transfer'[t] = transfer[t],
           Moved(t)
    PROVE  Moved(t)'
<1>1. CASE transfer[t] = Unused
  BY <1>1 DEF Moved, OnWire, Unused
<1>2. CASE transfer[t] # Unused
  <2>1. PICK n \in Nat : Carries(t, transfer[t], n)
    BY <1>2 DEF Moved
  <2>2. Follows(transfer[t], transfer[t], n)
    BY <2>1 DEF Carries, Follows
  <2>3. Carries(t, transfer[t], n)'
    BY <2>1, <2>2, CarriesKept
  <2> QED
    BY <1>2, <2>3 DEF Moved, Unused
<1> QED
  BY <1>1, <1>2

\* One transfer is answered or resumed, and no byte is moved.
LEMMA OneFollows ==
    ASSUME IInv, BytesInv, layer' = layer, wire' = wire, taken' = taken, arrived' = arrived,
           NEW t \in Transfers, NEW y, Working(transfer[t]), Sound(y),
           \A n \in Nat : Due(transfer[t], n) => Follows(transfer[t], y, n),
           transfer' = [transfer EXCEPT ![t] = y]
    PROVE  BytesInv'
<1>1. /\ DOMAIN transfer = Transfers /\ transfer'[t] = y
      /\ \A u \in Transfers : u # t => transfer'[u] = transfer[u]
  BY DEF IInv
<1>2. transfer[t] # Unused /\ y # Unused
  BY DEF Working, Unused, Sound, GoesOn, Ends, IsTransfer, Records
<1>3. PICK n \in Nat : Carries(t, transfer[t], n)
  BY <1>2 DEF BytesInv, Moved
<1>4. Follows(transfer[t], y, n)
  BY <1>3 DEF Carries
<1>5. Carries(t, y, n)'
  BY <1>3, <1>4, CarriesKept
<1>6. Moved(t)'
  BY <1>1, <1>2, <1>5 DEF Moved, Unused
<1>7. ASSUME NEW u \in Transfers, u # t PROVE Moved(u)'
  BY <1>1, <1>7, MovedKept DEF BytesInv
<1>8. y.op = transfer[t].op
  BY <1>4 DEF Follows
<1>9. Alone'
  <2> SUFFICES ASSUME NEW u \in Transfers, NEW v \in Transfers,
                      Working(transfer'[u]), Working(transfer'[v]),
                      transfer'[u].op = transfer'[v].op
               PROVE  u = v
    BY DEF Alone
  <2>1. \A w \in Transfers : Working(transfer'[w]) =>
            Working(transfer[w]) /\ transfer'[w].op = transfer[w].op
    BY <1>1, <1>8
  <2> QED
    BY <2>1 DEF BytesInv, Alone
<1> QED
  BY <1>6, <1>7, <1>9 DEF BytesInv, StreamInv

\* One begins, alone in its direction.
LEMMA OneStarts ==
    ASSUME IInv, BytesInv, layer' = layer, wire' = wire, taken' = taken, arrived' = arrived,
           NEW t \in Transfers, NEW op \in {"read", "write"}, NEW y, MayStart(t, op), Sound(y),
           y.op = op, y.got = <<>>, Due(y, 0),
           transfer' = [transfer EXCEPT ![t] = y]
    PROVE  BytesInv'
<1>1. /\ DOMAIN transfer = Transfers /\ transfer'[t] = y
      /\ \A u \in Transfers : u # t => transfer'[u] = transfer[u]
  BY DEF IInv
<1>2. transfer[t] = Unused /\ y # Unused
  BY DEF IInv, MayStart, Unused, Sound, GoesOn, Ends, IsTransfer, Records
<1>3. OnWire(t, 0)
  BY <1>2 DEF BytesInv, Moved
<1>4. Carries(t, y, 0)'
  <2>1. y.got = Stream(taken, 0) /\ taken \in Int /\ taken + 0 = taken' /\ 0 <= Len(wire')
    BY DEF BytesInv, StreamInv, Stream
  <2>2. Due(y, 0)' /\ OnWire(t, 0)'
    BY <1>3 DEF Due, OnWire
  <2> QED
    BY <2>1, <2>2 DEF Carries
<1>5. Moved(t)'
  BY <1>1, <1>2, <1>4 DEF Moved, Unused
<1>6. ASSUME NEW u \in Transfers, u # t PROVE Moved(u)'
  BY <1>1, <1>6, MovedKept DEF BytesInv
<1>7. Alone'
  BY <1>1 DEF Alone, BytesInv, MayStart
<1> QED
  BY <1>5, <1>6, <1>7 DEF BytesInv, StreamInv

LEMMA BytesKept ==
    ASSUME BytesInv, layer' = layer, wire' = wire, taken' = taken, transfer' = transfer,
           StreamInv'
    PROVE  BytesInv'
BY MovedKept DEF BytesInv, Alone

LEMMA AbortedFollows ==
    ASSUME NEW x, IsTransfer(x), NEW n \in Nat, Due(x, n)
    PROVE  Follows(x, Aborted(x), n) /\ (Working(Aborted(x)) => Working(x))
<1>1. CASE x.phase = "waiting"
  BY <1>1, EmptyAnswerFollows DEF Aborted, Due, Faults, Working
<1>2. CASE x.phase # "waiting"
  BY <1>2 DEF Aborted, Follows
<1> QED
  BY <1>1, <1>2

LEMMA AllAbortedBytes ==
    ASSUME IInv, BytesInv, layer' = layer, wire' = wire, taken' = taken, arrived' = arrived,
           transfer' = [t \in Transfers |-> Aborted(transfer[t])]
    PROVE  BytesInv'
<1>1. ASSUME NEW t \in Transfers
      PROVE  /\ Moved(t)'
             /\ Working(transfer'[t]) =>
                    Working(transfer[t]) /\ transfer'[t].op = transfer[t].op
  <2>1. transfer'[t] = Aborted(transfer[t])
    OBVIOUS
  <2>2. CASE transfer[t] = Unused
    <3>1. transfer'[t] = transfer[t] /\ ~Working(transfer'[t])
      BY <2>1, <2>2 DEF Aborted, Unused, Working
    <3> QED
      BY <3>1, MovedKept DEF BytesInv
  <2>3. CASE transfer[t] # Unused
    <3>1. PICK n \in Nat : Carries(t, transfer[t], n)
      BY <2>3 DEF BytesInv, Moved
    <3>2. IsTransfer(transfer[t]) /\ Due(transfer[t], n)
      BY <2>3, <3>1 DEF IInv, Sound, Carries
    <3>3. PICK y : y = Aborted(transfer[t])
      OBVIOUS
    <3>4. Follows(transfer[t], y, n) /\ (Working(y) => Working(transfer[t]))
      BY <3>2, <3>3, AbortedFollows
    <3>5. Carries(t, y, n)'
      BY <3>1, <3>4, CarriesKept
    <3>6. y # Unused
      BY <2>3, <3>2, <3>3 DEF Aborted, WithAnswer, Unused, IsTransfer, Records
    <3>7. Moved(t)'
      BY <2>1, <3>3, <3>5, <3>6 DEF Moved, Unused
    <3> QED
      BY <2>1, <3>3, <3>4, <3>7 DEF Follows
  <2> QED
    BY <2>2, <2>3
<1>2. Alone'
  BY <1>1 DEF Alone, BytesInv
<1> QED
  BY <1>1, <1>2 DEF BytesInv, StreamInv

\* A piece of the stream and the next one make a longer piece.
LEMMA StreamsJoin ==
    ASSUME NEW b \in Int, NEW n \in Nat, NEW k \in Nat
    PROVE  /\ Stream(b, n) \in Seq(Int) /\ Len(Stream(b, n)) = n
           /\ SubSeq(Stream(b, n), 1, n) = Stream(b, n)
           /\ Stream(b, n) \o Stream(b + n, k) = Stream(b, n + k)
<1>1. ASSUME NEW a \in Int, NEW m \in Nat
      PROVE  Stream(a, m) \in Seq(Int) /\ Len(Stream(a, m)) = m
                /\ \A i \in 1..m : Stream(a, m)[i] = a + i
  BY DEF Stream
<1>2. SubSeq(Stream(b, n), 1, n) = Stream(b, n)
  BY <1>1, SubSeqFull
<1> DEFINE p == Stream(b, n)
           q == Stream(b + n, k)
           s == p \o q
<1>3. /\ p \in Seq(Int) /\ Len(p) = n /\ \A i \in 1..n : p[i] = b + i
      /\ q \in Seq(Int) /\ Len(q) = k /\ \A i \in 1..k : q[i] = b + n + i
  BY <1>1
<1> HIDE DEF p, q
<1>4. /\ s \in Seq(Int) /\ Len(s) = n + k
      /\ \A i \in 1..(n + k) : s[i] = b + i
  <2>1. /\ s \in Seq(Int) /\ Len(s) = Len(p) + Len(q)
        /\ \A i \in 1..(Len(p) + Len(q)) :
              s[i] = IF i <= Len(p) THEN p[i] ELSE q[i - Len(p)]
    BY <1>3, ConcatProperties, Zenon
  <2> HIDE DEF s
  <2>2. ASSUME NEW i \in 1..(n + k) PROVE s[i] = b + i
    <3>1. CASE i <= n
      <4>1. i \in 1..n /\ i \in 1..(Len(p) + Len(q)) /\ i <= Len(p)
        BY <1>3, <3>1
      <4> QED
        BY <1>3, <2>1, <4>1
    <3>2. CASE ~(i <= n)
      <4>1. i - n \in 1..k /\ b + n + (i - n) = b + i
        BY <3>2
      <4>2. i \in 1..(Len(p) + Len(q)) /\ ~(i <= Len(p)) /\ i - Len(p) = i - n
        BY <1>3, <3>2
      <4>3. s[i] = q[i - n] /\ q[i - n] = b + n + (i - n)
        BY <1>3, <2>1, <4>1, <4>2
      <4> QED
        BY <4>1, <4>3
    <3> QED
      BY <3>1, <3>2
  <2> QED
    BY <1>3, <2>1, <2>2
<1> HIDE DEF s
<1>5. s = Stream(b, n + k)
  BY <1>4 DEF Stream
<1> QED
  BY <1>1, <1>2, <1>5 DEF s, p, q

\* What is read is the next piece.
LEMMA NextPiece ==
    ASSUME StreamInv, NEW k \in Nat, k > 0, k <= Len(Buffered)
    PROVE  taken + k <= arrived /\ SubSeq(Buffered, 1, k) = Stream(taken, k)
<1> DEFINE all == [i \in 1..MaxArrivals |-> i]
<1>1. /\ taken \in Nat /\ arrived \in Nat /\ MaxArrivals \in Nat
      /\ taken <= arrived /\ arrived <= MaxArrivals
  BY TransportAssumption DEF StreamInv
<1>2. /\ Buffered \in Seq(Int)
      /\ Len(Buffered) = IF taken + 1 <= arrived THEN arrived - (taken + 1) + 1 ELSE 0
      /\ \A i \in 1..(arrived - (taken + 1) + 1) : Buffered[i] = all[(taken + 1) + i - 1]
  <2>1. (\A i \in (taken + 1)..arrived : all[i] \in Int) /\ taken + 1 \in Int /\ arrived \in Int
    BY <1>1
  <2>2. Buffered = SubSeq(all, taken + 1, arrived)
    BY DEF Buffered
  <2> HIDE DEF all
  <2> DEFINE m == taken + 1
  <2>3. m \in Int /\ arrived \in Int /\ \A i \in m..arrived : all[i] \in Int
    BY <2>1
  <2> HIDE DEF m
  <2>4. /\ SubSeq(all, m, arrived) \in Seq(Int)
        /\ Len(SubSeq(all, m, arrived)) = IF m <= arrived THEN arrived - m + 1 ELSE 0
        /\ \A i \in 1..(arrived - m + 1) : SubSeq(all, m, arrived)[i] = all[m + i - 1]
    BY <2>3, SubSeqProperties
  <2> QED
    BY <2>2, <2>4 DEF m
<1>3. taken + k <= arrived /\ \A i \in 1..k : Buffered[i] = taken + i
  <2>1. taken + k <= arrived
    BY <1>1, <1>2
  <2>2. ASSUME NEW i \in 1..k PROVE Buffered[i] = taken + i
    <3>1. i \in 1..(arrived - (taken + 1) + 1) /\ (taken + 1) + i - 1 = taken + i
      BY <1>1, <2>1
    <3>2. all[taken + i] = taken + i
      BY <1>1, <2>1
    <3> HIDE DEF all
    <3> QED
      BY <1>2, <3>1, <3>2
  <2> QED
    BY <2>1, <2>2
<1> HIDE DEF all
<1> DEFINE s == SubSeq(Buffered, 1, k)
<1>4. s \in Seq(Int) /\ Len(s) = k /\ \A i \in 1..k : s[i] = Buffered[i]
  <2>1. \A i \in 1..k : Buffered[i] \in Int
    BY <1>1, <1>3
  <2>2. /\ s \in Seq(Int) /\ Len(s) = IF 1 <= k THEN k - 1 + 1 ELSE 0
        /\ \A i \in 1..(k - 1 + 1) : s[i] = Buffered[1 + i - 1]
    BY <2>1, SubSeqProperties
  <2> HIDE DEF s
  <2> QED
    BY <2>2
<1> HIDE DEF s
<1>5. s = Stream(taken, k)
  BY <1>3, <1>4 DEF Stream
<1> QED
  BY <1>3, <1>5 DEF s

\* k bytes are sent, after the first n.
Sends(t, n, k) == wire' = wire \o [i \in 1..k |-> <<t, n + i>>]

\* What is sent comes after what was sent before, and is nobody else's.
LEMMA WireGrows ==
    ASSUME wire \in Seq(Transfers \X Nat), NEW t \in Transfers, NEW n \in Nat, NEW k \in Nat,
           OnWire(t, n), Sends(t, n, k)
    PROVE  /\ wire' \in Seq(Transfers \X Nat) /\ Len(wire') = Len(wire) + k
           /\ OnWire(t, n + k)'
           /\ \A u \in Transfers, m \in Nat : u # t /\ OnWire(u, m) => OnWire(u, m)'
<1> DEFINE new == [i \in 1..k |-> <<t, n + i>>]
<1>1. new \in Seq(Transfers \X Nat) /\ Len(new) = k /\ \A i \in 1..k : new[i] = <<t, n + i>>
  OBVIOUS
<1>2. wire' = wire \o new
  BY DEF Sends
<1> HIDE DEF new
<1>3. /\ wire' \in Seq(Transfers \X Nat) /\ Len(wire') = Len(wire) + k
      /\ \A j \in 1..(Len(wire) + k) :
            wire'[j] = IF j <= Len(wire) THEN wire[j] ELSE new[j - Len(wire)]
  <2>1. /\ wire \o new \in Seq(Transfers \X Nat) /\ Len(wire \o new) = Len(wire) + Len(new)
        /\ \A j \in 1..(Len(wire) + Len(new)) :
              (wire \o new)[j] = IF j <= Len(wire) THEN wire[j] ELSE new[j - Len(wire)]
    BY <1>1, ConcatProperties, Zenon
  <2> QED
    BY <1>1, <1>2, <2>1, Zenon
<1>4. /\ Len(wire) \in Nat /\ DOMAIN wire = 1..Len(wire) /\ DOMAIN wire' = 1..(Len(wire) + k)
      /\ \A j \in DOMAIN wire : wire[j] \in Transfers \X Nat /\ wire'[j] = wire[j]
      /\ \A j \in DOMAIN wire' \ DOMAIN wire :
            j - Len(wire) \in 1..k /\ wire'[j] = <<t, n + (j - Len(wire))>>
  <2>1. /\ Len(wire) \in Nat /\ DOMAIN wire = 1..Len(wire)
        /\ DOMAIN wire' = 1..(Len(wire) + k)
    BY <1>3
  <2>2. ASSUME NEW j \in DOMAIN wire
        PROVE  wire[j] \in Transfers \X Nat /\ wire'[j] = wire[j]
    <3>1. j <= Len(wire) /\ j \in 1..(Len(wire) + k)
      BY <2>1
    <3> QED
      BY <1>3, <2>1, <3>1
  <2>3. ASSUME NEW j \in DOMAIN wire', j \notin DOMAIN wire
        PROVE  j - Len(wire) \in 1..k /\ wire'[j] = <<t, n + (j - Len(wire))>>
    <3>1. j \in 1..(Len(wire) + k) /\ ~(j <= Len(wire)) /\ j - Len(wire) \in 1..k
      BY <2>1, <2>3
    <3>2. wire'[j] = new[j - Len(wire)]
      BY <1>3, <3>1
    <3> QED
      BY <1>1, <3>1, <3>2
  <2> QED
    BY <2>1, <2>2, <2>3
<1>5. OnWire(t, n + k)'
  <2>1. ASSUME NEW j \in DOMAIN wire', wire'[j][1] = t PROVE wire'[j][2] \in 1..(n + k)
    <3>1. CASE j \in DOMAIN wire
      BY <1>4, <2>1, <3>1 DEF OnWire
    <3>2. CASE j \notin DOMAIN wire
      BY <1>4, <3>2
    <3> QED
      BY <3>1, <3>2
  <2>2. ASSUME NEW i \in 1..(n + k) PROVE \E j \in DOMAIN wire' : wire'[j] = <<t, i>>
    <3>1. CASE i <= n
      <4>1. PICK j \in DOMAIN wire : wire[j] = <<t, i>>
        BY <3>1 DEF OnWire
      <4>2. j \in DOMAIN wire' /\ wire'[j] = <<t, i>>
        BY <1>4, <4>1
      <4> QED
        BY <4>2
    <3>2. CASE i > n
      <4>1. PICK d \in 1..k : i = n + d
        BY <3>2
      <4>2. PICK j \in 1..(Len(wire) + k) : j - Len(wire) = d /\ j \notin DOMAIN wire
        <5>1. Len(wire) \in Nat /\ d \in Nat /\ d >= 1 /\ d <= k
          BY <1>4, <4>1
        <5>2. /\ Len(wire) + d \in 1..(Len(wire) + k) /\ (Len(wire) + d) - Len(wire) = d
              /\ Len(wire) + d \notin 1..Len(wire)
          BY <5>1
        <5> QED
          BY <1>4, <5>2
      <4>3. wire'[j] = <<t, n + d>>
        BY <1>4, <4>2
      <4> QED
        BY <1>4, <4>1, <4>2, <4>3
    <3>3. i <= n \/ i > n
      OBVIOUS
    <3> QED
      BY <3>1, <3>2, <3>3, Zenon
  <2>3. ASSUME NEW i \in DOMAIN wire', NEW j \in DOMAIN wire', i < j,
               wire'[i][1] = t, wire'[j][1] = t
        PROVE  wire'[i][2] < wire'[j][2]
    <3>1. CASE j \in DOMAIN wire
      <4>1. i \in DOMAIN wire
        BY <1>4, <2>3, <3>1
      <4> QED
        BY <1>4, <2>3, <3>1, <4>1 DEF OnWire
    <3>2. CASE j \notin DOMAIN wire /\ i \in DOMAIN wire
      <4>1. wire'[i][2] \in 1..n
        BY <1>4, <2>3, <3>2 DEF OnWire
      <4>2. wire'[j][2] = n + (j - Len(wire)) /\ j - Len(wire) \in 1..k
        BY <1>4, <3>2
      <4>3. \A v \in 1..n, d \in 1..k : v < n + d
        OBVIOUS
      <4> QED
        BY <4>1, <4>2, <4>3
    <3>3. CASE j \notin DOMAIN wire /\ i \notin DOMAIN wire
      <4>1. wire'[i][2] = n + (i - Len(wire)) /\ wire'[j][2] = n + (j - Len(wire))
        BY <1>4, <3>3
      <4>2. i \in Int /\ j \in Int /\ Len(wire) \in Nat
        BY <1>4
      <4> QED
        BY <2>3, <4>1, <4>2
    <3> QED
      BY <3>1, <3>2, <3>3
  <2> QED
    BY <2>1, <2>2, <2>3 DEF OnWire
<1>6. ASSUME NEW u \in Transfers, NEW m \in Nat, u # t, OnWire(u, m) PROVE OnWire(u, m)'
  <2>1. \A j \in DOMAIN wire' : wire'[j][1] = u => j \in DOMAIN wire
    BY <1>4, <1>6
  <2>2. DOMAIN wire \subseteq DOMAIN wire'
    BY <1>4
  <2>3. \A j \in DOMAIN wire : wire'[j] = wire[j]
    BY <1>4
  <2>4. \A j \in DOMAIN wire' : wire'[j][1] = u => wire'[j][2] \in 1..m
    BY <1>6, <2>1, <2>3 DEF OnWire
  <2>5. \A i \in 1..m : \E j \in DOMAIN wire' : wire'[j] = <<u, i>>
    BY <1>6, <2>2, <2>3, Zenon DEF OnWire
  <2>6. ASSUME NEW i \in DOMAIN wire', NEW j \in DOMAIN wire', i < j,
               wire'[i][1] = u, wire'[j][1] = u
        PROVE  wire'[i][2] < wire'[j][2]
    <3>1. i \in DOMAIN wire /\ j \in DOMAIN wire
      BY <2>1, <2>6
    <3>2. wire[i] = wire'[i] /\ wire[j] = wire'[j]
      BY <2>3, <3>1
    <3> QED
      BY <1>6, <2>6, <3>1, <3>2, Zenon DEF OnWire
  <2> QED
    BY <2>4, <2>5, <2>6 DEF OnWire
<1> QED
  BY <1>3, <1>5, <1>6

LEMMA ReceiveMoves ==
    ASSUME IInv, BytesInv, NEW t \in Transfers, ReceiveBytes(t)
    PROVE  BytesInv'
<1>1. /\ transfer[t].phase = "waiting" /\ transfer[t].op = "read"
      /\ IsTransfer(transfer[t]) /\ GoesOn(transfer[t])
      /\ layer' = layer /\ wire' = wire /\ arrived' = arrived
  BY WorkingGoesOn DEF ReceiveBytes
<1>2. PICK k \in 1..Remaining(transfer[t]).size :
          /\ k <= Len(Buffered) /\ taken' = taken + k
          /\ transfer' = [transfer EXCEPT ![t] = Filled(transfer[t], k)]
  BY DEF ReceiveBytes
<1>3. transfer[t].size \in Nat /\ transfer[t].total \in Nat /\ transfer[t] # Unused
  BY <1>1 DEF IsTransfer, Records, Unused
<1>4. k \in Nat /\ k > 0
  BY <1>2, <1>3 DEF Remaining
<1>5. PICK n \in Nat : Carries(t, transfer[t], n)
  BY <1>3 DEF BytesInv, Moved
<1>6. n = transfer[t].total
  BY <1>1, <1>5 DEF Carries, Due
<1>7. PICK b \in Int : transfer[t].got = Stream(b, n) /\ b + n = taken
  BY <1>1, <1>5 DEF Carries, Working
<1>8. /\ taken + k <= arrived /\ SubSeq(Buffered, 1, k) = Stream(taken, k)
  BY <1>2, <1>4, NextPiece DEF BytesInv
<1>9. PICK y : y = Filled(transfer[t], k)
  OBVIOUS
<1>10. /\ y.phase = "answered" /\ y.answer.n = k /\ y.op = "read"
       /\ y.total = transfer[t].total
       /\ y.got = SubSeq(transfer[t].got, 1, transfer[t].total) \o SubSeq(Buffered, 1, k)
  <2> DEFINE g == SubSeq(transfer[t].got, 1, transfer[t].total) \o SubSeq(Buffered, 1, k)
             a == [n |-> k, Ec |-> "none"]
  <2>1. y = [transfer[t] EXCEPT !.phase = "answered", !.answer = a, !.got = g]
    BY <1>9 DEF Filled, Remaining
  <2>2. a.n = k
    OBVIOUS
  <2> HIDE DEF g, a
  <2>3. /\ y.phase = "answered" /\ y.answer = a /\ y.got = g /\ y.op = transfer[t].op
        /\ y.total = transfer[t].total
    BY <1>1, <2>1 DEF IsTransfer, Records
  <2> QED
    BY <1>1, <2>2, <2>3 DEF g
<1>11. y.got = Stream(b, n + k)
  <2>1. y.got = SubSeq(Stream(b, n), 1, n) \o Stream(b + n, k)
    BY <1>6, <1>7, <1>8, <1>10, Zenon
  <2>2. /\ SubSeq(Stream(b, n), 1, n) = Stream(b, n)
        /\ Stream(b, n) \o Stream(b + n, k) = Stream(b, n + k)
    BY <1>4, StreamsJoin
  <2> QED
    BY <2>1, <2>2, Zenon
<1>12. /\ DOMAIN transfer = Transfers /\ transfer'[t] = y
       /\ \A u \in Transfers : u # t => transfer'[u] = transfer[u]
  BY <1>2, <1>9 DEF IInv
<1>13. Moved(t)'
  <2>1. n + k \in Nat /\ b + (n + k) = taken'
    BY <1>2, <1>4, <1>7
  <2>2. Due(y, n + k)'
    BY <1>6, <1>10 DEF Due
  <2>3. Carries(t, y, n + k)'
    BY <1>10, <1>11, <2>1, <2>2 DEF Carries
  <2>4. y # Unused
    BY <1>10 DEF Unused
  <2> QED
    BY <1>12, <2>1, <2>3, <2>4 DEF Moved, Unused
<1>14. ASSUME NEW u \in Transfers, u # t PROVE Moved(u)'
  <2>1. CASE transfer[u] = Unused
    BY <1>1, <1>12, <1>14, <2>1 DEF BytesInv, Moved, OnWire, Unused
  <2>2. CASE transfer[u] # Unused
    <3>1. PICK m \in Nat : Carries(u, transfer[u], m)
      BY <2>2 DEF BytesInv, Moved
    <3>2. transfer[u].op = "read" => ~Working(transfer[u])
      BY <1>1, <1>14 DEF BytesInv, Alone, Working
    <3>3. PICK x : x = transfer[u]
      OBVIOUS
    <3>4. Carries(u, x, m)'
      BY <1>1, <3>1, <3>2, <3>3 DEF Carries, OnWire, Due
    <3> QED
      BY <1>12, <1>14, <2>2, <3>3, <3>4 DEF Moved, Unused
  <2> QED
    BY <2>1, <2>2
<1>15. Alone'
  BY <1>1, <1>10, <1>12 DEF BytesInv, Alone, Working
<1>16. StreamInv'
  BY <1>1, <1>2, <1>4, <1>8 DEF BytesInv, StreamInv
<1> QED
  BY <1>13, <1>14, <1>15, <1>16 DEF BytesInv

LEMMA SendMoves ==
    ASSUME IInv, BytesInv, NEW t \in Transfers, SendBytes(t)
    PROVE  BytesInv'
<1>1. /\ transfer[t].phase = "waiting" /\ transfer[t].op = "write"
      /\ IsTransfer(transfer[t]) /\ GoesOn(transfer[t])
      /\ layer' = layer /\ taken' = taken /\ arrived' = arrived
  BY WorkingGoesOn DEF SendBytes
<1>2. PICK k \in 1..Remaining(transfer[t]).size :
          /\ transfer' = [transfer EXCEPT ![t].phase = "answered",
                                          ![t].answer = [n |-> k, Ec |-> "none"]]
          /\ wire' = wire \o [i \in 1..k |-> <<t, Remaining(transfer[t]).from + i>>]
  BY DEF SendBytes
<1>3. transfer[t].size \in Nat /\ transfer[t].total \in Nat /\ transfer[t] # Unused
  BY <1>1 DEF IsTransfer, Records, Unused
<1>4. k \in Nat /\ k > 0
  BY <1>2, <1>3 DEF Remaining
<1>5. PICK n \in Nat : Carries(t, transfer[t], n)
  BY <1>3 DEF BytesInv, Moved
<1>6. n = transfer[t].total /\ transfer[t].got = <<>> /\ n <= Len(wire) /\ OnWire(t, n)
  BY <1>1, <1>5 DEF Carries, Due
<1>7. Sends(t, n, k)
  BY <1>2, <1>6 DEF Remaining, Sends
<1>8. wire \in Seq(Transfers \X Nat)
  BY DEF BytesInv, StreamInv
<1>9. /\ wire' \in Seq(Transfers \X Nat) /\ Len(wire') = Len(wire) + k
      /\ OnWire(t, n + k)'
      /\ \A u \in Transfers, m \in Nat : u # t /\ OnWire(u, m) => OnWire(u, m)'
  BY <1>4, <1>6, <1>7, <1>8, WireGrows
<1>10. PICK y : /\ y.phase = "answered" /\ y.answer.n = k /\ y.op = "write" /\ y.got = <<>>
                /\ y.total = transfer[t].total /\ transfer' = [transfer EXCEPT ![t] = y]
  <2> DEFINE a == [n |-> k, Ec |-> "none"]
             y == [transfer[t] EXCEPT !.phase = "answered", !.answer = a]
  <2>1. transfer' = [transfer EXCEPT ![t] = y]
    BY <1>2 DEF IInv
  <2>2. a.n = k
    OBVIOUS
  <2> HIDE DEF a
  <2>3. /\ y.phase = "answered" /\ y.answer = a /\ y.got = transfer[t].got
        /\ y.op = transfer[t].op /\ y.total = transfer[t].total
    BY <1>1 DEF IsTransfer, Records
  <2> HIDE DEF y
  <2> QED
    BY <1>1, <1>6, <2>1, <2>2, <2>3
<1>11. /\ DOMAIN transfer = Transfers /\ transfer'[t] = y
       /\ \A u \in Transfers : u # t => transfer'[u] = transfer[u]
  BY <1>10 DEF IInv
<1>12. Moved(t)'
  <2>1. n + k \in Nat /\ n + k <= Len(wire')
    BY <1>4, <1>6, <1>8, <1>9
  <2>2. Due(y, n + k)'
    BY <1>6, <1>10 DEF Due
  <2>3. Carries(t, y, n + k)'
    BY <1>9, <1>10, <2>1, <2>2 DEF Carries
  <2>4. y # Unused
    BY <1>10 DEF Unused
  <2> QED
    BY <1>11, <2>1, <2>3, <2>4 DEF Moved, Unused
<1>13. ASSUME NEW u \in Transfers, u # t PROVE Moved(u)'
  <2>1. CASE transfer[u] = Unused
    <3>1. OnWire(u, 0)'
      BY <1>9, <1>13, <2>1 DEF BytesInv, Moved
    <3> QED
      BY <1>11, <1>13, <2>1, <3>1 DEF Moved, Unused
  <2>2. CASE transfer[u] # Unused
    <3>1. PICK m \in Nat : Carries(u, transfer[u], m)
      BY <2>2 DEF BytesInv, Moved
    <3>2. PICK x : x = transfer[u]
      OBVIOUS
    <3>3. OnWire(u, m) => OnWire(u, m)'
      BY <1>9, <1>13
    <3>4. m <= Len(wire) => m <= Len(wire')
      BY <1>4, <1>8, <1>9
    <3>5. Carries(u, x, m)'
      BY <1>1, <3>1, <3>2, <3>3, <3>4 DEF Carries, Due
    <3> QED
      BY <1>11, <1>13, <2>2, <3>2, <3>5 DEF Moved, Unused
  <2> QED
    BY <2>1, <2>2
<1>14. Alone'
  BY <1>1, <1>10, <1>11 DEF BytesInv, Alone, Working
<1>15. StreamInv'
  BY <1>1, <1>9 DEF BytesInv, StreamInv
<1> QED
  BY <1>12, <1>13, <1>14, <1>15 DEF BytesInv

\* Every step: begun, answered or resumed without a byte, or with some.
LEMMA NextBytes == IInv /\ BytesInv /\ [TransportNext]_transportVars => BytesInv'
<1> SUFFICES ASSUME IInv, BytesInv, [TransportNext]_transportVars PROVE BytesInv'
  OBVIOUS
<1> layer \in {"Reliable", "custom"}
  BY DEF IInv
<1>0. ASSUME NEW op \in {"read", "write"}, NEW way \in {"all", "some", "bridge"},
             NEW size \in Sizes, NEW y, Follows(New(op, way, size), y, 0)
      PROVE  y.op = op /\ y.got = <<>> /\ Due(y, 0)
  BY <1>0 DEF Follows, New
<1>1. ASSUME NEW t \in Transfers, StartWhole(t) PROVE BytesInv'
  <2>1. PICK op \in {"read", "write"}, size \in Sizes :
            /\ MayStart(t, op)
            /\ transfer' = [transfer EXCEPT ![t] = Loop(New(op, "all", size))]
    BY <1>1 DEF StartWhole
  <2>2. PICK x : x = New(op, "all", size)
    OBVIOUS
  <2>3. IsTransfer(x) /\ GoesOn(x) /\ x.way = "all" /\ x.total = 0
    BY <2>2, NewGoesOn DEF New
  <2>4. Sound(Loop(x)) /\ Follows(x, Loop(x), 0)
    BY <2>3, LoopSound, LoopFollows
  <2>5. layer' = layer /\ wire' = wire /\ taken' = taken /\ arrived' = arrived
    BY <1>1 DEF StartWhole, Quietly
  <2> QED
    BY <1>0, <2>1, <2>2, <2>4, <2>5, OneStarts
<1>2. ASSUME NEW t \in Transfers, StartSome(t) PROVE BytesInv'
  <2>1. PICK op \in {"read", "write"}, size \in Sizes :
            /\ MayStart(t, op)
            /\ transfer' = [transfer EXCEPT ![t] = Ask(New(op, "some", size))]
    BY <1>2 DEF StartSome
  <2>2. PICK x : x = New(op, "some", size)
    OBVIOUS
  <2>3. IsTransfer(x) /\ GoesOn(x) /\ x.total = 0
    BY <1>2, <2>2, NewGoesOn DEF New, StartSome
  <2>4. Sound(Ask(x)) /\ Follows(x, Ask(x), 0)
    BY <2>3, AskSound, AskFollows
  <2>5. layer' = layer /\ wire' = wire /\ taken' = taken /\ arrived' = arrived
    BY <1>2 DEF StartSome, Quietly
  <2> QED
    BY <1>0, <2>1, <2>2, <2>4, <2>5, OneStarts
<1>3. ASSUME NEW t \in Transfers, StartBridged(t) PROVE BytesInv'
  <2>1. PICK op \in {"read", "write"}, size \in Sizes :
            /\ MayStart(t, op)
            /\ \E y \in {Complete(New(op, "bridge", size), "operation_aborted", 0),
                         Ask(New(op, "bridge", size)),
                         Complete(Complete(New(op, "bridge", size), "none", 0),
                                  "operation_aborted", 0)} :
                  transfer' = [transfer EXCEPT ![t] = y]
    BY <1>3 DEF StartBridged
  <2>2. PICK x : x = New(op, "bridge", size)
    OBVIOUS
  <2>3. IsTransfer(x) /\ GoesOn(x) /\ x.total = 0 /\ x.way = "bridge" /\ layer = "custom"
    BY <1>3, <2>2, NewGoesOn DEF New, StartBridged
  <2>4. Sound(Ask(x)) /\ Follows(x, Ask(x), 0)
    BY <2>3, AskSound, AskFollows
  <2>5. /\ Sound(Complete(x, "operation_aborted", 0))
        /\ Follows(x, Complete(x, "operation_aborted", 0), 0)
    BY <2>3, CompleteSound, CompleteFollows DEF Faults
  <2>6. /\ Sound(Complete(x, "none", 0)) /\ ~Complete(x, "none", 0).held
        /\ Follows(x, Complete(x, "none", 0), 0)
    BY <2>3, CompleteSound, CompleteFollows DEF Faults
  <2>7. Complete(Complete(x, "none", 0), "operation_aborted", 0) = Complete(x, "none", 0)
    <3> DEFINE z == Complete(x, "none", 0)
    <3> HIDE DEF z
    <3>1. ~z.held => Complete(z, "operation_aborted", 0) = z
      BY DEF Complete
    <3> QED
      BY <2>6, <3>1 DEF z
  <2>8. PICK y : Sound(y) /\ Follows(x, y, 0) /\ transfer' = [transfer EXCEPT ![t] = y]
    BY <2>1, <2>2, <2>4, <2>5, <2>6, <2>7
  <2>9. layer' = layer /\ wire' = wire /\ taken' = taken /\ arrived' = arrived
    BY <1>3 DEF StartBridged, Quietly
  <2> QED
    BY <1>0, <2>1, <2>2, <2>8, <2>9, OneStarts
<1>4. ASSUME NEW t \in Transfers, ReceiveBytes(t) \/ SendBytes(t) PROVE BytesInv'
  BY <1>4, ReceiveMoves, SendMoves
<1>5. ASSUME NEW t \in Transfers, SocketFails(t) PROVE BytesInv'
  <2>1. IsTransfer(transfer[t]) /\ GoesOn(transfer[t]) /\ transfer[t].phase = "waiting"
    BY <1>5, WorkingGoesOn DEF SocketFails
  <2>2. PICK Ec \in {"eof", "connection_reset", "broken_pipe"} :
            transfer' = [transfer EXCEPT ![t] = WithAnswer(transfer[t], 0, Ec)]
    BY <1>5 DEF SocketFails
  <2>3. Ec \in Faults
    BY DEF Faults
  <2>4. Sound(WithAnswer(transfer[t], 0, Ec))
    BY <2>1, <2>3, EmptyAnswerSound
  <2>5. ASSUME NEW n \in Nat, Due(transfer[t], n)
        PROVE  Follows(transfer[t], WithAnswer(transfer[t], 0, Ec), n)
    BY <2>1, <2>3, <2>5, EmptyAnswerFollows DEF Due
  <2>6. layer' = layer /\ wire' = wire /\ taken' = taken /\ arrived' = arrived
    BY <1>5 DEF SocketFails, Quietly
  <2>7. Working(transfer[t])
    BY <2>1 DEF Working
  <2> QED
    BY <2>2, <2>4, <2>5, <2>6, <2>7, OneFollows
<1>6. ASSUME NEW t \in Transfers, CustomAnswers(t) PROVE BytesInv'
  <2>1. PICK x : x = transfer[t]
    OBVIOUS
  <2>2. /\ IsTransfer(x) /\ GoesOn(x) /\ layer = "custom" /\ x.phase = "waiting"
        /\ x.size \in Nat /\ x.total \in Nat /\ x.total <= x.size
        /\ x.way \in {"all", "some", "bridge"}
    <3>1. IsTransfer(x) /\ GoesOn(x) /\ layer = "custom" /\ x.phase = "waiting"
      BY <1>6, <2>1, WorkingGoesOn DEF CustomAnswers
    <3> QED
      BY <3>1 DEF IsTransfer, Records, GoesOn
  <2> DEFINE a == [n |-> Remaining(x).size + 1, Ec |-> "none"]
             thrown == [x EXCEPT !.phase = "done", !.Ec = "thrown"]
             Good(y) == Sound(y) /\ \A n \in Nat : Due(x, n) => Follows(x, y, n)
  <2>3. ASSUME NEW Ec \in Faults PROVE Good(WithAnswer(x, 0, Ec))
    BY <2>2, EmptyAnswerSound, EmptyAnswerFollows DEF Due
  <2>4. Good(WithAnswer(x, Remaining(x).size + 1, "none"))
    <3>1. a \in Answers /\ a.n > x.size - x.total
      BY <2>2 DEF Remaining, Answers, Faults
    <3>2. WithAnswer(x, Remaining(x).size + 1, "none")
          = [x EXCEPT !.phase = "answered", !.answer = a]
      BY DEF WithAnswer
    <3> HIDE DEF a
    <3>3. Sound([x EXCEPT !.phase = "answered", !.answer = a])
      BY <2>2, <3>1, AnsweredSound
    <3>4. ASSUME NEW n \in Nat
          PROVE  Follows(x, [x EXCEPT !.phase = "answered", !.answer = a], n)
      BY <2>2, <3>1, AnsweredFollows, Zenon
    <3> QED
      BY <3>2, <3>3, <3>4, Zenon
  <2>5. x.way = "bridge" => Good(Complete(x, "operation_aborted", 0))
    BY <2>2, CompleteSound, CompleteFollows DEF Faults
  <2>6. x.way # "bridge" => Good(thrown)
    <3>1. "thrown" \in Faults /\ "thrown" # "none" /\ layer # "Reliable"
      BY <2>2 DEF Faults
    <3>2. x.way # "bridge" => x.way = "all"
      BY <2>2 DEF GoesOn
    <3>3. x.way = "all" => Sound(thrown)
      BY <2>2, <3>1, WholeEnds
    <3>4. ASSUME NEW n \in Nat PROVE Follows(x, thrown, n)
      BY <2>2, <3>1, WholeEndFollows
    <3> QED
      BY <3>2, <3>3, <3>4
  <2>7. \E y \in {WithAnswer(x, 0, "none"), WithAnswer(x, 0, "failed"),
                  WithAnswer(x, Remaining(x).size + 1, "none"),
                  IF x.way = "bridge" THEN Complete(x, "operation_aborted", 0) ELSE thrown} :
            transfer' = [transfer EXCEPT ![t] = y]
    BY <1>6, <2>1, Zenon DEF CustomAnswers
  <2>8. "none" \in Faults /\ "failed" \in Faults
    BY DEF Faults
  <2>9. PICK y : Good(y) /\ transfer' = [transfer EXCEPT ![t] = y]
    <3> HIDE DEF thrown, Good
    <3> QED
      BY <2>3, <2>4, <2>5, <2>6, <2>7, <2>8
  <2>10. layer' = layer /\ wire' = wire /\ taken' = taken /\ arrived' = arrived
    BY <1>6 DEF CustomAnswers, Quietly
  <2>11. Working(transfer[t])
    BY <2>1, <2>2 DEF Working
  <2> QED
    BY <2>1, <2>9, <2>10, <2>11, OneFollows
<1>7. ASSUME NEW t \in Transfers, Resume(t) PROVE BytesInv'
  <2>1. PICK x : x = transfer[t]
    OBVIOUS
  <2>2. IsTransfer(x) /\ GoesOn(x) /\ Fits(x) /\ x.phase = "answered"
    BY <1>7, <2>1, WorkingGoesOn DEF Resume
  <2>3. transfer' = [transfer EXCEPT ![t] =
            IF x.way = "all" THEN Round(x) ELSE Complete(x, x.answer.Ec, x.answer.n)]
    BY <1>7, <2>1 DEF Resume
  <2>4. layer' = layer /\ wire' = wire /\ taken' = taken /\ arrived' = arrived
    BY <1>7 DEF Resume, Quietly
  <2>5. Working(transfer[t])
    BY <2>1, <2>2 DEF Working
  <2>6. CASE x.way = "all"
    <3>1. Sound(Round(x))
      BY <2>2, <2>6, RoundSound
    <3>2. ASSUME NEW n \in Nat, Due(x, n) PROVE Follows(x, Round(x), n)
      BY <2>2, <2>6, <3>2, RoundFollows
    <3>3. transfer' = [transfer EXCEPT ![t] = Round(x)]
      BY <2>3, <2>6
    <3> QED
      BY <2>1, <2>4, <2>5, <3>1, <3>2, <3>3, OneFollows
  <2>7. CASE x.way # "all"
    <3>1. x.answer.Ec \in Faults /\ x.answer.n \in Nat /\ x.size \in Nat
      BY <2>2 DEF IsTransfer, Records, Answers
    <3>2. x.total = 0 /\ (layer = "Reliable" => x.answer.n <= x.size)
      BY <2>2, <2>7, <3>1 DEF Fits, GoesOn
    <3>3. Sound(Complete(x, x.answer.Ec, x.answer.n))
      BY <2>2, <2>7, <3>1, <3>2, CompleteSound
    <3>4. ASSUME NEW n \in Nat, Due(x, n)
          PROVE  Follows(x, Complete(x, x.answer.Ec, x.answer.n), n)
      <4>1. layer = "Reliable" => n = x.answer.n
        BY <2>2, <3>1, <3>2, <3>4 DEF Due, Fits
      <4> QED
        BY <2>2, <2>7, <3>1, <4>1, CompleteFollows
    <3>5. transfer' = [transfer EXCEPT ![t] = Complete(x, x.answer.Ec, x.answer.n)]
      BY <2>3, <2>7
    <3> QED
      BY <2>1, <2>4, <2>5, <3>3, <3>4, <3>5, OneFollows
  <2> QED
    BY <2>6, <2>7
<1>8. ASSUME NEW t \in Transfers, OwnerCloses(t) PROVE BytesInv'
  <2>1. PICK y : y = Aborted(transfer[t])
    OBVIOUS
  <2>2. transfer' = [transfer EXCEPT ![t] = y] /\ Working(transfer[t])
    BY <1>8, <2>1 DEF OwnerCloses, Working
  <2>3. IsTransfer(transfer[t]) /\ transfer[t].phase = "waiting"
    BY <1>8, WorkingGoesOn DEF OwnerCloses
  <2>4. Sound(y)
    <3>1. y = Unused \/ Sound(y)
      BY <2>1, AbortedSound DEF IInv
    <3>2. y.phase = "answered"
      BY <2>1, <2>3 DEF Aborted, WithAnswer, IsTransfer, Records
    <3> QED
      BY <3>1, <3>2 DEF Unused
  <2>5. ASSUME NEW n \in Nat, Due(transfer[t], n) PROVE Follows(transfer[t], y, n)
    BY <2>1, <2>3, <2>5, AbortedFollows
  <2>6. layer' = layer /\ wire' = wire /\ taken' = taken /\ arrived' = arrived
    BY <1>8 DEF OwnerCloses, Quietly
  <2> QED
    BY <2>2, <2>4, <2>5, <2>6, OneFollows
<1>9. CASE Cancel \/ Close
  BY <1>9, AllAbortedBytes DEF Cancel, Close, Quietly
<1>10. CASE ShutdownWrite \/ ReleaseSocket \/ UNCHANGED transportVars
  BY <1>10, BytesKept DEF ShutdownWrite, ReleaseSocket, transportVars, BytesInv, StreamInv
<1>11. CASE Arrive
  <2>1. StreamInv'
    BY <1>11, TransportAssumption DEF Arrive, BytesInv, StreamInv
  <2> QED
    BY <1>11, <2>1, BytesKept DEF Arrive
<1> QED
  BY <1>1, <1>2, <1>3, <1>4, <1>5, <1>6, <1>7, <1>8, <1>9, <1>10, <1>11 DEF TransportNext

LEMMA InitBytes == TransportInit => BytesInv
<1> SUFFICES ASSUME TransportInit PROVE BytesInv
  OBVIOUS
<1>1. /\ taken = 0 /\ arrived = 0 /\ wire = <<>>
      /\ \A t \in Transfers : transfer[t] = Unused
  BY DEF TransportInit
<1>2. StreamInv /\ Alone
  BY <1>1, TransportAssumption DEF StreamInv, Alone, Working, Unused
<1>3. \A t \in Transfers : Moved(t)
  BY <1>1 DEF Moved, OnWire
<1> QED
  BY <1>2, <1>3 DEF BytesInv

LEMMA BytesInductive == TransportSpec => []BytesInv
BY InitBytes, NextBytes, Inductive, PTL DEF TransportSpec

\* Every completion handler is called once, however its read or write ends
\* (CompletionState, Transmission.hpp:106-151).
THEOREM HandlersCalledOnce == TransportSpec => []HandlersOnce
<1>1. IInv => HandlersOnce
  <2> SUFFICES ASSUME IInv, NEW t \in Transfers, transfer[t].phase # "idle"
               PROVE  CalledOnce(transfer[t])
    BY DEF HandlersOnce
  <2>1. Sound(transfer[t])
    BY DEF IInv, Unused
  <2> QED BY <2>1 DEF Sound, GoesOn, Ends, CalledOnce
<1> QED BY <1>1, Inductive, PTL

\* No total passes the buffer of the caller, and a whole read or write that succeeds has
\* filled it (AsyncRead and AsyncWrite, Transmission.hpp:378-439).
THEOREM TotalsWithinBuffers == TransportSpec => []TotalsRight
<1>1. IInv => TotalsRight
  <2> SUFFICES ASSUME IInv, NEW t \in Transfers, transfer[t].phase # "idle"
               PROVE  TotalRight(transfer[t])
    BY DEF TotalsRight
  <2>1. Sound(transfer[t])
    BY DEF IInv, Unused
  <2> QED BY <2>1 DEF Sound, GoesOn, Ends, TotalRight
<1> QED BY <1>1, Inductive, PTL

\* The bytes of a read are the next ones of the stream, those of a write the next ones of
\* its buffer, each once and in order, as many as a Reliable reports and all of them when a
\* whole transfer succeeds, however it is cut into rounds and whatever ends it
\* (Transmission.hpp:378-439, Reliable.hpp:106-188).
THEOREM TransfersTrue == TransportSpec => []TransfersRight
<1>1. IInv /\ BytesInv => \A t \in Transfers :
          transfer[t].phase # "idle" => BytesRight(t, transfer[t])
  <2> SUFFICES ASSUME IInv, BytesInv, NEW t \in Transfers, transfer[t].phase # "idle"
               PROVE  BytesRight(t, transfer[t])
    OBVIOUS
  <2>1. PICK x : x = transfer[t]
    OBVIOUS
  <2>2. Sound(x) /\ \E n \in Nat : Carries(t, x, n)
    BY <2>1 DEF IInv, BytesInv, Moved, Unused
  <2>3. PICK n \in Nat : Carries(t, x, n)
    BY <2>2
  <2>4. x.op \in {"read", "write"} /\ x.size \in Nat /\ x.total \in Nat
        /\ x.phase \in {"waiting", "answered", "done"}
    BY <2>2 DEF Sound, IsTransfer, Records
  <2>5. x.op = "read" => Got(x, n) /\ Len(x.got) = n
    <3> SUFFICES ASSUME x.op = "read" PROVE Got(x, n) /\ Len(x.got) = n
      OBVIOUS
    <3>1. PICK b \in Int : x.got = Stream(b, n)
      BY <2>3 DEF Carries
    <3>2. Len(x.got) = n /\ \A i \in 1..n : x.got[i] = b + i
      BY <3>1, StreamsJoin DEF Stream
    <3>3. ASSUME NEW i \in 1..(n - 1) PROVE x.got[i + 1] = x.got[i] + 1
      <4>1. i \in 1..n /\ i + 1 \in 1..n
        OBVIOUS
      <4>2. x.got[i] = b + i /\ x.got[i + 1] = b + (i + 1)
        BY <3>2, <4>1
      <4> QED
        BY <4>2
    <3> QED
      BY <3>2, <3>3 DEF Got
  <2>6. x.op = "write" => OnWire(t, n) /\ n <= Len(wire) /\ Len(x.got) = 0
    BY <2>3 DEF Carries
  <2>7. layer = "Reliable" =>
            n = IF x.phase = "answered" THEN x.total + x.answer.n ELSE x.total
    <3>1. x.phase = "answered" => x.answer.n \in Nat
      BY <2>2 DEF Sound, IsTransfer, Records, Answers
    <3>2. layer = "Reliable" /\ x.phase = "answered" => ~(x.answer.n > x.size - x.total)
      BY <2>2, <2>4, <3>1 DEF Sound, Fits, Ends
    <3> QED
      BY <2>3, <2>4, <3>2 DEF Carries, Due
  <2>8. x.phase = "done" /\ x.way = "all" /\ x.Ec = "none" => n = x.size
    BY <2>3 DEF Carries, Due
  <2>9. n \in 0..(Len(x.got) + Len(wire))
    <3>1. Len(wire) \in Nat
      BY DEF BytesInv, StreamInv
    <3> QED
      BY <2>4, <2>5, <2>6, <3>1
  <2>10. BytesRight(t, x)
    BY <2>5, <2>6, <2>7, <2>8, <2>9 DEF BytesRight
  <2> QED
    BY <2>1, <2>10
<1>2. HandlersOnce /\ TotalsRight /\ IInv /\ BytesInv => TransfersRight
  BY <1>1 DEF TransfersRight
<1> QED
  BY <1>2, HandlersCalledOnce, TotalsWithinBuffers, Inductive, BytesInductive, PTL

-----------------------------------------------------------------------------
\* The messages.  A first line is made of sequences of words.
IsWords(w) == \E S : w \in Seq(S)
IsFunction(f) == f = [k \in DOMAIN f |-> f[k]]

\* Keys of fields that a header can have: its own key and Timestamp are not among them.
FieldsSound(f) ==
    /\ IsFunction(f) /\ DOMAIN f \subseteq HeaderKeys
    /\ OwnKey \notin DOMAIN f /\ "Timestamp" \notin DOMAIN f

IsHeader(h) ==
    h = [first |-> h.first, second |-> h.second, name |-> h.name, headers |-> h.headers,
         version |-> h.version, type |-> h.type, sum |-> h.sum, length |-> h.length,
         timestamp |-> h.timestamp, protocol |-> h.protocol]
HeaderSound(h) ==
    IsHeader(h) /\ IsWords(h.first) /\ IsWords(h.second) /\ FieldsSound(h.headers)

Checked(h, body) == h.length = Len(body) /\ h.sum = CalculateCheckCode(h, body)
TextOf(h, body) == [as |-> "text", head |-> HeaderText(h), body |-> body]
JsonOf(h, body) == [as |-> "json", header |-> h, body |-> body]

\* The cached text of a message is the one that its header and body would make now.
CacheFresh(m) ==
    m.cached = Unmade \/ (Checked(m.header, m.body) /\ m.cached = TextOf(m.header, m.body))
MessageSound(m) ==
    /\ m = [header |-> m.header, body |-> m.body, cached |-> m.cached]
    /\ HeaderSound(m.header) /\ CacheFresh(m)

IsHead(t) ==
    t = [words |-> t.words, version |-> t.version, type |-> t.type, sum |-> t.sum,
         length |-> t.length, name |-> t.name, timestamp |-> t.timestamp, ended |-> TRUE,
         fields |-> t.fields]
HeadSound(t) == IsHead(t) /\ IsWords(t.words) /\ FieldsSound(t.fields)
SentSound(s) ==
    \/ s = Unmade
    \/ /\ s.as = "text" /\ s = [as |-> "text", head |-> s.head, body |-> s.body]
       /\ HeadSound(s.head)
    \/ /\ s.as = "json" /\ s = [as |-> "json", header |-> s.header, body |-> s.body]
       /\ HeaderSound(s.header)

MessageInv ==
    /\ format \in {"request", "response"}
    /\ DOMAIN message = Names
    /\ \A n \in Names : MessageSound(message[n])
    /\ SentSound(sent)

-----------------------------------------------------------------------------
LEMMA NoFieldsSound == FieldsSound(NoFields)
  BY DEF FieldsSound, IsFunction, NoFields

LEMMA ChecksumSound ==
  ASSUME NEW h, HeaderSound(h), NEW body, NEW g, g = CalculateAndSetChecksum(h, body)
  PROVE  /\ HeaderSound(g) /\ Checked(g, body)
         /\ Content(g, body) = Content(h, body)
         /\ Checked(h, body) => g = h
<1>0. IsHeader(h)
  BY DEF HeaderSound
<1>1. g = [first |-> h.first, second |-> h.second, name |-> h.name, headers |-> h.headers,
           version |-> h.version, type |-> h.type, sum |-> CalculateCheckCode(h, body),
           length |-> Len(body), timestamp |-> h.timestamp, protocol |-> h.protocol]
  BY <1>0 DEF CalculateAndSetChecksum, IsHeader
<1>2. HeaderSound(g)
  BY <1>1 DEF HeaderSound, IsHeader
<1>3. Checked(g, body)
  BY <1>1 DEF Checked, CalculateCheckCode
<1>4. Content(g, body) = Content(h, body)
  BY <1>1 DEF Content
<1>5. Checked(h, body) => g = h
  BY <1>0, <1>1 DEF Checked, IsHeader
<1> QED BY <1>2, <1>3, <1>4, <1>5

LEMMA TextSays ==
  ASSUME NEW h, NEW body, Checked(h, body)
  PROVE  Sent(TextOf(h, body)) = Promised!TextOf(Content(h, body))
  BY DEF Sent, TextOf, HeaderText, Checked, Content, CalculateCheckCode,
         Promised!TextOf, Promised!LinesOf, Promised!Sum

LEMMA JsonSays ==
  ASSUME NEW h, NEW body, Checked(h, body)
  PROVE  Sent(JsonOf(h, body)) = Promised!JsonOf(Content(h, body))
  BY DEF Sent, JsonOf, Checked, Content, CalculateCheckCode, Promised!JsonOf, Promised!Sum

LEMMA WordsJoin ==
  ASSUME NEW v, NEW w, IsWords(v), IsWords(w)
  PROVE  IsWords(v \o w)
<1>1. PICK S : v \in Seq(S)
  BY DEF IsWords
<1>2. PICK T : w \in Seq(T)
  BY DEF IsWords
<1>3. v \in Seq(S \union T) /\ w \in Seq(S \union T)
  BY <1>1, <1>2, SeqMonotonic
<1>4. v \o w \in Seq(S \union T)
  BY <1>3
<1> QED BY <1>4 DEF IsWords

LEMMA HeadOfText ==
  ASSUME NEW h, HeaderSound(h)
  PROVE  HeadSound(HeaderText(h))
  BY WordsJoin DEF HeaderSound, HeadSound, IsHead, HeaderText

-----------------------------------------------------------------------------
\* One call of a setter.
LEMMA SetterSound ==
  ASSUME NEW h, HeaderSound(h), format \in {"request", "response"}, NEW g \in Setter(h)
  PROVE  HeaderSound(g)
<1> USE DEF HeaderSound, IsHeader
<1>1. CASE g \in OwnSetter(h)
  BY <1>1, MessageAssumption DEF OwnSetter, MessageAssumption, IsWords
<1>2. CASE g \in SetHeader(h)
  <2>1. PICK k \in HeaderKeys \ Reserved, v \in FieldValues :
            g = [h EXCEPT !.headers = With(@, k, v)]
    BY <1>2 DEF SetHeader
  <2>2. FieldsSound(With(h.headers, k, v))
    BY <2>1 DEF With, FieldsSound, IsFunction, Reserved, OwnKey
  <2> QED BY <2>1, <2>2
<1>3. CASE g \in RemoveHeader(h)
  <2>1. PICK k \in DOMAIN h.headers :
            g = [h EXCEPT !.headers = [j \in DOMAIN @ \ {k} |-> @[j]]]
    BY <1>3 DEF RemoveHeader
  <2>2. FieldsSound([j \in DOMAIN h.headers \ {k} |-> h.headers[j]])
    BY DEF FieldsSound, IsFunction
  <2> QED BY <2>1, <2>2
<1>4. CASE g = [h EXCEPT !.headers = NoFields]
  BY <1>4, NoFieldsSound
<1>5. CASE \E x : g = [h EXCEPT !.type = x]
  BY <1>5
<1>6. CASE \E x : g = [h EXCEPT !.protocol = x]
  BY <1>6
<1> QED BY <1>1, <1>2, <1>3, <1>4, <1>5, <1>6 DEF Setter

-----------------------------------------------------------------------------
\* Of several lines one is the last: the one after which there is none.
LEMMA OneIsLast ==
  ASSUME NEW S, S \subseteq HeaderKeys, S # {}
  PROVE  LastLine(S) \in S
<1> DEFINE After(k) == {j \in HeaderKeys : Rank[j] > Rank[k]}
           T == {After(k) : k \in S}
<1>1. IsFiniteSet(HeaderKeys) /\ \A k \in HeaderKeys : Rank[k] \in Nat
  BY MessageAssumption DEF MessageAssumption
<1>2. IsWellFoundedOn(StrictSubsetOrdering(HeaderKeys), SUBSET HeaderKeys)
  BY <1>1, FS_StrictSubsetOrderingWellFounded, FS_FiniteSubsetsOfFinite
<1>3. T \subseteq SUBSET HeaderKeys /\ T # {}
  OBVIOUS
<1>4. PICK x \in T : \A y \in T : ~(<<y, x>> \in StrictSubsetOrdering(HeaderKeys))
  <2> HIDE DEF T
  <2> QED BY <1>2, <1>3, WFMin
<1>5. PICK k \in S : x = After(k)
  BY <1>4
<1>6. ASSUME NEW j \in S, ~(Rank[j] <= Rank[k])
      PROVE  FALSE
  <2>1. Rank[j] \in Nat /\ Rank[k] \in Nat /\ Rank[j] > Rank[k]
    BY <1>1, <1>6
  <2>2. j \in After(k) /\ j \notin After(j)
    BY <2>1
  <2>3. After(j) \subseteq After(k)
    BY <1>1, <2>1
  <2>4. <<After(j), After(k)>> \in StrictSubsetOrdering(HeaderKeys)
    BY <2>2, <2>3 DEF StrictSubsetOrdering
  <2> QED BY <1>4, <1>5, <2>4
<1>7. \E i \in S : \A j \in S : Rank[j] <= Rank[i]
  BY <1>6
<1> QED BY <1>7 DEF LastLine

\* What the lines of a text are read into.
LEMMA FieldsRead ==
  ASSUME NEW t, FieldsSound(t.fields), LinesOK(t)
  PROVE  FieldsSound(FieldsIn(t))
<1>1. IsFunction(FieldsIn(t)) /\ DOMAIN FieldsIn(t) = {Trimmed[j] : j \in FieldLines(t)}
  BY DEF FieldsIn, IsFunction
<1>2. \A j \in FieldLines(t) : Trimmed[j] \in HeaderKeys /\ Trimmed[j] # OwnKey
                                /\ Trimmed[j] # "Timestamp"
  BY MessageAssumption DEF MessageAssumption, FieldLines, OwnLines, FieldsSound, LinesOK
<1> QED BY <1>1, <1>2 DEF FieldsSound

\* Without blanks around a key, every line is a field of its own.
LEMMA UnpaddedRead ==
  ASSUME NEW t, FieldsSound(t.fields), \A k \in DOMAIN t.fields : Trimmed[k] = k
  PROVE  /\ OwnLines(t) = {} /\ FieldLines(t) = DOMAIN t.fields
         /\ \A k \in DOMAIN t.fields :
               KeysBefore(t, k) = {j \in DOMAIN t.fields : Rank[j] < Rank[k]}
<1>1. OwnLines(t) = {} /\ FieldLines(t) = DOMAIN t.fields
  BY DEF OwnLines, FieldLines, FieldsSound
<1>2. \A k \in DOMAIN t.fields :
          KeysBefore(t, k) = {j \in DOMAIN t.fields : Rank[j] < Rank[k]}
  BY <1>1 DEF KeysBefore
<1> QED BY <1>1, <1>2

\* A finite set of fields is as large as the set of its lines.
LEMMA AsManyLines ==
  ASSUME NEW f, IsFiniteSet(DOMAIN f)
  PROVE  Cardinality({<<k, f[k]>> : k \in DOMAIN f}) = Cardinality(DOMAIN f)
<1> DEFINE L == {<<k, f[k]>> : k \in DOMAIN f}
           b == [k \in DOMAIN f |-> <<k, f[k]>>]
<1>1. b \in Bijection(DOMAIN f, L)
  BY DEF Bijection, Injection, Surjection, IsInjective
<1>2. ExistsBijection(DOMAIN f, L)
  BY <1>1 DEF ExistsBijection
<1> QED BY <1>2, FS_Bijection

\* A text that the promise calls readable is read.
LEMMA ReadableRead ==
  ASSUME NEW t, FieldsSound(t.fields), MaxFields \in Nat,
         \A k \in DOMAIN t.fields : Trimmed[k] = k,
         Cardinality({<<k, t.fields[k]>> : k \in DOMAIN t.fields}) <= MaxFields
  PROVE  LinesOK(t)
<1> DEFINE D == DOMAIN t.fields
<1>1. IsFiniteSet(D)
  BY FS_Subset, MessageAssumption DEF MessageAssumption, FieldsSound
<1>2. Cardinality(D) <= MaxFields
  BY <1>1, AsManyLines
<1>3. ASSUME NEW k \in D
      PROVE  Cardinality(KeysBefore(t, k)) < MaxFields
  <2> DEFINE E == {j \in D : Rank[j] < Rank[k]}
  <2>1. Rank[k] \in Nat
    BY MessageAssumption DEF MessageAssumption, FieldsSound
  <2>2. E \subseteq D \ {k}
    BY <2>1
  <2>3. IsFiniteSet(D \ {k}) /\ Cardinality(D \ {k}) = Cardinality(D) - 1
    BY <1>1, FS_RemoveElement
  <2>4. Cardinality(E) <= Cardinality(D \ {k})
    BY <2>2, <2>3, FS_Subset
  <2>5. Cardinality(D) \in Nat /\ Cardinality(E) \in Nat
    BY <1>1, <2>2, <2>3, FS_Subset, FS_CardinalityType
  <2>6. KeysBefore(t, k) = E
    BY UnpaddedRead
  <2> HIDE DEF E, D
  <2> QED BY <1>2, <2>3, <2>4, <2>5, <2>6
<1>4. OwnLines(t) = {} /\ FieldLines(t) = D
  BY UnpaddedRead
<1>5. \A k \in D : Trimmed[k] \notin {"", "Timestamp"}
  BY MessageAssumption DEF MessageAssumption, FieldsSound
<1>6. Cardinality(D) + (IF t.name = "" THEN 0 ELSE 1) <= MaxFields + 8
  <2>1. Cardinality(D) \in Nat
    BY <1>1, FS_CardinalityType
  <2> HIDE DEF D
  <2>2. Cardinality(D) + 1 <= MaxFields + 8 /\ Cardinality(D) + 0 <= MaxFields + 8
    BY <1>2, <2>1
  <2> QED BY <2>2
<1> QED BY <1>3, <1>4, <1>5, <1>6 DEF LinesOK

\* A header that has what a text tells.
TakesOver(h, t) ==
    /\ h.first \o h.second = t.words /\ h.name = NameIn(t) /\ h.headers = FieldsIn(t)
    /\ h.version = t.version /\ h.type = t.type /\ h.timestamp = t.timestamp

LEMMA HeaderRead ==
  ASSUME NEW h, HeaderSound(h), NEW t, HeadSound(t), NEW r, r = HeaderFromString(h, t)
  PROVE  /\ HeaderSound(r.header)
         /\ r.ok <=> LinesOK(t) /\ Len(t.words) = 2 /\ TimeOK(t.timestamp)
         /\ ~r.ok => r.header = h
         /\ r.ok => TakesOver(r.header, t)
<1>0. t.ended = TRUE
  BY DEF HeadSound, IsHead
<1>1. CASE LinesOK(t) /\ Len(t.words) = 2 /\ TimeOK(t.timestamp)
  <2> DEFINE g == [first |-> <<t.words[1]>>, second |-> <<t.words[2]>>, name |-> NameIn(t),
                   headers |-> FieldsIn(t), version |-> t.version, type |-> t.type,
                   sum |-> t.sum, length |-> t.length, timestamp |-> t.timestamp,
                   protocol |-> h.protocol]
  <2>1. r = [ok |-> TRUE, header |-> g]
    BY <1>0, <1>1 DEF HeaderFromString
  <2>2. /\ g.first = <<t.words[1]>> /\ g.second = <<t.words[2]>> /\ g.name = NameIn(t)
        /\ g.headers = FieldsIn(t) /\ g.version = t.version /\ g.type = t.type
        /\ g.timestamp = t.timestamp /\ IsHeader(g)
    BY DEF IsHeader
  <2>3. PICK S : t.words \in Seq(S)
    BY DEF HeadSound, IsWords
  <2>4. <<t.words[1]>> \in Seq(S) /\ <<t.words[2]>> \in Seq(S)
        /\ <<t.words[1]>> \o <<t.words[2]>> = t.words
    BY <1>1, <2>3
  <2>5. FieldsSound(FieldsIn(t))
    BY <1>1, FieldsRead DEF HeadSound
  <2> HIDE DEF g
  <2>6. HeaderSound(g)
    BY <2>2, <2>4, <2>5 DEF HeaderSound, IsWords
  <2>7. r.ok = TRUE /\ r.header = g
    BY <2>1
  <2>8. TakesOver(g, t)
    BY <2>2, <2>4 DEF TakesOver
  <2> QED BY <1>1, <2>6, <2>7, <2>8
<1>2. CASE ~(LinesOK(t) /\ Len(t.words) = 2 /\ TimeOK(t.timestamp))
  <2>1. r = [ok |-> FALSE, header |-> h]
    BY <1>0, <1>2 DEF HeaderFromString, Refused
  <2> QED BY <1>2, <2>1
<1> QED BY <1>1, <1>2

LEMMA JsonRead ==
  ASSUME NEW h, HeaderSound(h), NEW j, HeaderSound(j), NEW r, r = HeaderFromJson(h, j),
         NEW body
  PROVE  /\ HeaderSound(r.header)
         /\ r.ok <=> Promised!Acceptable(Content(j, body))
         /\ r.header = IF r.ok THEN j ELSE h
  BY DEF HeaderFromJson, BaseFromJson, Refused, Content, TimeOK, Reserved,
         Promised!Acceptable, Promised!Timely, Promised!Reserved

\* A text in the words of the promise.
LEMMA TextSent ==
  ASSUME NEW s, NEW t, s = [as |-> "text", head |-> t, body |-> s.body]
  PROVE  Sent(s) = [as |-> "text", words |-> t.words, name |-> t.name, version |-> t.version,
                    type |-> t.type, timestamp |-> t.timestamp, length |-> t.length,
                    sum |-> t.sum, body |-> s.body,
                    fields |-> {<<k, t.fields[k]>> : k \in DOMAIN t.fields}]
<1>1. s.as = "text" /\ s.head = t
  OBVIOUS
<1> QED BY <1>1 DEF Sent

LEMMA UnpaddedSent ==
  ASSUME NEW f, NEW p, p.fields = {<<k, f[k]>> : k \in DOMAIN f}
  PROVE  /\ Promised!Unpadded(p) <=> \A k \in DOMAIN f : Trimmed[k] = k
         /\ Promised!Told(p) = {<<Trimmed[k], Trimmed[f[k]]>> : k \in DOMAIN f}
<1>1. \A k \in DOMAIN f : <<k, f[k]>> \in p.fields
  OBVIOUS
<1>2. \A x \in p.fields : \E k \in DOMAIN f : x = <<k, f[k]>> /\ x[1] = k /\ x[2] = f[k]
  OBVIOUS
<1>3. \A k \in DOMAIN f : <<k, f[k]>>[1] = k /\ <<k, f[k]>>[2] = f[k]
  OBVIOUS
<1>4. ASSUME Promised!Unpadded(p), NEW k \in DOMAIN f
      PROVE  Trimmed[k] = k
  <2>1. Trimmed[<<k, f[k]>>[1]] = <<k, f[k]>>[1]
    BY <1>1, <1>4 DEF Promised!Unpadded
  <2> QED BY <1>3, <2>1
<1>5. ASSUME \A k \in DOMAIN f : Trimmed[k] = k, NEW x \in p.fields
      PROVE  Trimmed[x[1]] = x[1]
  BY <1>2, <1>5
<1>6. ASSUME NEW x \in p.fields
      PROVE  \E k \in DOMAIN f :
                <<Trimmed[x[1]], Trimmed[x[2]]>> = <<Trimmed[k], Trimmed[f[k]]>>
  BY <1>2
<1>7. ASSUME NEW k \in DOMAIN f
      PROVE  \E x \in p.fields :
                <<Trimmed[x[1]], Trimmed[x[2]]>> = <<Trimmed[k], Trimmed[f[k]]>>
  BY <1>1, <1>3
<1>8. Promised!Unpadded(p) <=> \A k \in DOMAIN f : Trimmed[k] = k
  BY <1>4, <1>5 DEF Promised!Unpadded
<1>9. Promised!Told(p) = {<<Trimmed[k], Trimmed[f[k]]>> : k \in DOMAIN f}
  <2>1. \A y \in Promised!Told(p) : y \in {<<Trimmed[k], Trimmed[f[k]]>> : k \in DOMAIN f}
    BY <1>6 DEF Promised!Told
  <2>2. \A y \in {<<Trimmed[k], Trimmed[f[k]]>> : k \in DOMAIN f} : y \in Promised!Told(p)
    BY <1>7 DEF Promised!Told
  <2> QED BY <2>1, <2>2
<1> QED BY <1>8, <1>9

\* Every field that was read has the value of a line with its key, and so has the name
\* when there is such a line.
LEMMA LinesRead ==
  ASSUME NEW t, FieldsSound(t.fields),
         NEW L, L = {<<Trimmed[k], Trimmed[t.fields[k]]>> : k \in DOMAIN t.fields},
         NEW K, K = {Trimmed[k] : k \in DOMAIN t.fields}
  PROVE  /\ DOMAIN FieldsIn(t) = K \ {OwnKey}
         /\ \A k \in DOMAIN FieldsIn(t) : <<k, FieldsIn(t)[k]>> \in L
         /\ OwnKey \in K => <<OwnKey, NameIn(t)>> \in L
         /\ OwnKey \notin K => NameIn(t) = Trimmed[t.name]
<1>1. DOMAIN FieldsIn(t) = {Trimmed[j] : j \in FieldLines(t)}
  BY DEF FieldsIn
<1>2. DOMAIN FieldsIn(t) = K \ {OwnKey}
  BY <1>1 DEF FieldLines, OwnLines
<1>3. DOMAIN t.fields \subseteq HeaderKeys
  BY DEF FieldsSound
<1>4. ASSUME NEW k \in DOMAIN FieldsIn(t)
      PROVE  <<k, FieldsIn(t)[k]>> \in L
  <2> DEFINE S == {j \in FieldLines(t) : Trimmed[j] = k}
  <2>1. S # {} /\ S \subseteq DOMAIN t.fields
    BY <1>1 DEF FieldLines
  <2>2. FieldsIn(t)[k] = Trimmed[t.fields[LastLine(S)]]
    BY <1>1 DEF FieldsIn
  <2> HIDE DEF S
  <2>3. LastLine(S) \in S
    BY <1>3, <2>1, OneIsLast
  <2>4. LastLine(S) \in DOMAIN t.fields /\ Trimmed[LastLine(S)] = k
    BY <2>1, <2>3 DEF S
  <2> QED BY <2>2, <2>4
<1>5. ASSUME OwnKey \in K
      PROVE  <<OwnKey, NameIn(t)>> \in L
  <2>1. OwnLines(t) # {} /\ OwnLines(t) \subseteq DOMAIN t.fields
    BY <1>5 DEF OwnLines
  <2>2. LastLine(OwnLines(t)) \in OwnLines(t)
    BY <1>3, <2>1, OneIsLast
  <2>3. LastLine(OwnLines(t)) \in DOMAIN t.fields /\ Trimmed[LastLine(OwnLines(t))] = OwnKey
    BY <2>2 DEF OwnLines
  <2>4. NameIn(t) = Trimmed[t.fields[LastLine(OwnLines(t))]]
    BY <2>1 DEF NameIn
  <2> QED BY <2>3, <2>4
<1>6. OwnKey \notin K => NameIn(t) = Trimmed[t.name]
  BY DEF NameIn, OwnLines
<1> QED BY <1>2, <1>4, <1>5, <1>6

\* A header that was read says what the text tells.
LEMMA ToldByText ==
  ASSUME NEW h, HeaderSound(h), NEW s, NEW t, HeadSound(t),
         s = [as |-> "text", head |-> t, body |-> s.body],
         NEW r, r = HeaderFromString(h, t), r.ok, NEW body
  PROVE  Promised!HeaderOf(Content(r.header, body), Sent(s))
<1>1. LinesOK(t) /\ TakesOver(r.header, t)
  BY HeaderRead
<1>2. FieldsSound(t.fields)
  BY DEF HeadSound
<1> DEFINE p == Sent(s)
           c == Content(r.header, body)
           L == {<<Trimmed[k], Trimmed[t.fields[k]]>> : k \in DOMAIN t.fields}
           K == {Trimmed[k] : k \in DOMAIN t.fields}
<1>3. /\ p.fields = {<<k, t.fields[k]>> : k \in DOMAIN t.fields} /\ p.name = t.name
      /\ p.words = t.words /\ p.version = t.version /\ p.type = t.type
      /\ p.timestamp = t.timestamp
  BY TextSent
<1>4. /\ c.first = r.header.first /\ c.second = r.header.second
      /\ c.headers = FieldsIn(t) /\ c.name = NameIn(t)
      /\ c.version = t.version /\ c.type = t.type /\ c.timestamp = t.timestamp
  BY <1>1 DEF Content, TakesOver
<1> HIDE DEF p, c
<1>5. Promised!Told(p) = L
  BY <1>3, UnpaddedSent
<1>6. {f[1] : f \in Promised!Told(p)} = K
  <2>1. \A f \in L : f[1] \in K
    OBVIOUS
  <2>2. \A k \in DOMAIN t.fields :
            <<Trimmed[k], Trimmed[t.fields[k]]>> \in L
            /\ <<Trimmed[k], Trimmed[t.fields[k]]>>[1] = Trimmed[k]
    OBVIOUS
  <2>3. \A y \in {f[1] : f \in L} : y \in K
    BY <2>1
  <2>4. \A y \in K : y \in {f[1] : f \in L}
    BY <2>2
  <2> QED BY <1>5, <2>3, <2>4
<1>7. Promised!OwnKey = OwnKey
  BY DEF Promised!OwnKey, OwnKey
<1> HIDE DEF L, K
<1>8. /\ DOMAIN c.headers = K \ {OwnKey}
      /\ \A k \in DOMAIN c.headers : <<k, c.headers[k]>> \in L
      /\ OwnKey \in K => <<OwnKey, c.name>> \in L
      /\ OwnKey \notin K => c.name = Trimmed[p.name]
  <2>1. /\ DOMAIN FieldsIn(t) = K \ {OwnKey}
        /\ \A k \in DOMAIN FieldsIn(t) : <<k, FieldsIn(t)[k]>> \in L
        /\ OwnKey \in K => <<OwnKey, NameIn(t)>> \in L
        /\ OwnKey \notin K => NameIn(t) = Trimmed[t.name]
    <3>1. /\ L = {<<Trimmed[k], Trimmed[t.fields[k]]>> : k \in DOMAIN t.fields}
          /\ K = {Trimmed[k] : k \in DOMAIN t.fields}
      BY DEF L, K
    <3> QED BY ONLY <1>2, <3>1, LinesRead
  <2> QED BY <1>3, <1>4, <2>1
<1>9. Promised!LinesOf(c) \subseteq Promised!Told(p)
  BY <1>5, <1>8 DEF Promised!LinesOf
<1>10. /\ c.first \o c.second = p.words /\ c.version = p.version /\ c.type = p.type
       /\ c.timestamp = p.timestamp
  BY <1>1, <1>3, <1>4 DEF TakesOver
<1>11. Promised!HeaderOf(c, p)
  BY <1>5, <1>6, <1>7, <1>8, <1>9, <1>10 DEF Promised!HeaderOf
<1> QED BY <1>11 DEF p, c

LEMMA SameSize == ASSUME NEW S PROVE Promised!Cardinality(S) = Cardinality(S)
  BY DEF Promised!Cardinality, Cardinality

LEMMA RefusedText ==
  ASSUME NEW h, HeaderSound(h), NEW s, NEW t, HeadSound(t),
         s = [as |-> "text", head |-> t, body |-> s.body],
         NEW r, r = HeaderFromString(h, t), ~r.ok
  PROVE  ~Promised!Readable(Sent(s))
<1> DEFINE p == Sent(s)
<1>1. /\ p.words = t.words /\ p.timestamp = t.timestamp
      /\ p.fields = {<<k, t.fields[k]>> : k \in DOMAIN t.fields}
  BY TextSent
<1>2. SUFFICES ASSUME Promised!Readable(p) PROVE r.ok
  OBVIOUS
<1> HIDE DEF p
<1>3. /\ Len(t.words) = 2 /\ TimeOK(t.timestamp) /\ Promised!Unpadded(p)
      /\ Cardinality({<<k, t.fields[k]>> : k \in DOMAIN t.fields}) <= MaxFields
  BY <1>1, <1>2, SameSize DEF Promised!Readable, Promised!Timely, TimeOK
<1>4. LinesOK(t)
  BY <1>1, <1>3, UnpaddedSent, ReadableRead, MessageAssumption
     DEF HeadSound, MessageAssumption
<1> QED BY <1>3, <1>4, HeaderRead

-----------------------------------------------------------------------------
\* What the messages say, as the promise sees it.
Said == [n \in Names |-> Content(message[n].header, message[n].body)]

\* What is sound stays so while the format does.
LEMMA FormatKeepsMessage ==
  ASSUME format' = format, NEW n, MessageSound(message'[n])
  PROVE  MessageSound(message[n])'
  BY DEF MessageSound, HeaderSound, IsHeader, FieldsSound, IsFunction, OwnKey, CacheFresh,
         Checked, CalculateCheckCode, TextOf, HeaderText

LEMMA FormatKeepsSent ==
  ASSUME format' = format, SentSound(sent')
  PROVE  SentSound(sent)'
  BY DEF SentSound, HeadSound, IsHead, HeaderSound, IsHeader, FieldsSound, IsFunction, OwnKey

LEMMA OneSet ==
  ASSUME MessageInv, NEW n \in Names, NEW m, Sets(n, m)
  PROVE  /\ DOMAIN message' = Names
         /\ \A i \in Names : message'[i] = IF i = n THEN m ELSE message[i]
  BY DEF MessageInv, Sets

LEMMA OneSaid ==
  ASSUME MessageInv, NEW n \in Names, NEW m, Sets(n, m)
  PROVE  Said' = [Said EXCEPT ![n] = Content(m.header, m.body)]
<1>1. \A i \in Names : message'[i] = IF i = n THEN m ELSE message[i]
  BY OneSet
<1>2. \A i \in Names : Said'[i] = IF i = n THEN Content(m.header, m.body) ELSE Said[i]
  BY <1>1 DEF Said
<1>3. DOMAIN Said = Names /\ DOMAIN Said' = Names
  BY DEF Said
<1>4. [Said EXCEPT ![n] = Content(m.header, m.body)] =
         [i \in Names |-> IF i = n THEN Content(m.header, m.body) ELSE Said[i]]
  BY <1>3
<1>5. Said' = [i \in Names |-> Said'[i]]
  BY DEF Said
<1> QED BY <1>2, <1>4, <1>5

\* A message that gets the content it has says what it said.
LEMMA SameSaid ==
  ASSUME MessageInv, NEW n \in Names, NEW m, Sets(n, m),
         Content(m.header, m.body) = Content(message[n].header, message[n].body)
  PROVE  Said' = Said
<1>1. \A i \in Names : message'[i] = IF i = n THEN m ELSE message[i]
  BY OneSet
<1>2. \A i \in Names : Content(message'[i].header, message'[i].body)
                          = Content(message[i].header, message[i].body)
  BY <1>1
<1> QED BY <1>2 DEF Said

\* A step that sets one message and leaves what was sent alone.
LEMMA OneKeeps ==
  ASSUME MessageInv, format' = format, NEW n \in Names, NEW m, MessageSound(m), Sets(n, m),
         SentSound(sent')
  PROVE  MessageInv'
<1>1. DOMAIN message' = Names /\ \A i \in Names : MessageSound(message'[i])
  BY OneSet DEF MessageInv
<1>2. \A i \in Names : MessageSound(message[i])'
  BY <1>1, FormatKeepsMessage
<1>3. SentSound(sent)'
  BY FormatKeepsSent
<1> QED BY <1>1, <1>2, <1>3 DEF MessageInv

LEMMA NewSound ==
  ASSUME NEW h, HeaderSound(h), NEW body, NEW m, m = NewMessage(h, body)
  PROVE  MessageSound(m) /\ m.header = h /\ m.body = body
  BY DEF MessageSound, NewMessage, CacheFresh

\* What the calls of a program make of a message.
LEMMA HeaderEdited ==
  ASSUME NEW m, m = [header |-> m.header, body |-> m.body, cached |-> m.cached],
         NEW h, NEW g, g = [m EXCEPT !.header = h, !.cached = Unmade]
  PROVE  g = NewMessage(h, m.body)
  BY DEF NewMessage

LEMMA BodyEdited ==
  ASSUME NEW m, m = [header |-> m.header, body |-> m.body, cached |-> m.cached],
         NEW body, NEW g, g = [m EXCEPT !.body = body, !.cached = Unmade]
  PROVE  g = NewMessage(m.header, body)
  BY DEF NewMessage

LEMMA AllEdited ==
  ASSUME NEW m, m = [header |-> m.header, body |-> m.body, cached |-> m.cached],
         NEW h, NEW body, NEW g, g = [m EXCEPT !.header = h, !.body = body, !.cached = Unmade]
  PROVE  g = NewMessage(h, body)
  BY DEF NewMessage

LEMMA OneWord == ASSUME NEW x PROVE IsWords(<<x>>)
<1>1. <<x>> \in Seq({x})
  OBVIOUS
<1> QED BY <1>1 DEF IsWords

LEMMA DefaultSound ==
  ASSUME NEW fmt \in {"request", "response"}
  PROVE  HeaderSound(DefaultHeader(fmt)) /\ DefaultHeader(fmt).headers = NoFields
<1> DEFINE d == DefaultHeader(fmt)
<1>1. IsHeader(d) /\ d.headers = NoFields
  BY DEF DefaultHeader, IsHeader
<1>2. d.first = (IF fmt = "request" THEN <<>> ELSE <<"200">>)
      /\ d.second = (IF fmt = "request" THEN <<>> ELSE <<"OK">>)
  BY DEF DefaultHeader
<1>3. IsWords(<<>>) /\ IsWords(<<"200">>) /\ IsWords(<<"OK">>)
  BY OneWord, EmptySeq DEF IsWords
<1> HIDE DEF d
<1>4. IsWords(d.first) /\ IsWords(d.second)
  BY <1>2, <1>3
<1>5. HeaderSound(d)
  BY <1>1, <1>4, NoFieldsSound DEF HeaderSound
<1> QED BY <1>1, <1>5 DEF d

\* A setter, a constructor or an assignment.
LEMMA Changes ==
  ASSUME MessageInv, Quiet, NEW n \in Names, NEW h, HeaderSound(h), NEW body,
         Sets(n, NewMessage(h, body))
  PROVE  MessageInv' /\ Promised!Change(n)
<1> DEFINE m == NewMessage(h, body)
<1>1. MessageSound(m)
  BY NewSound
<1>2. format' = format /\ sent' = sent /\ verdict' = "none"
  BY DEF Quiet
<1>3. SentSound(sent')
  BY <1>2 DEF MessageInv
<1> HIDE DEF m
<1>4. MessageInv'
  BY <1>1, <1>2, <1>3, OneKeeps DEF m
<1>5. Said' = [Said EXCEPT ![n] = Content(m.header, m.body)]
  BY OneSaid DEF m
<1>6. Said' = [Said EXCEPT ![n] = Said'[n]]
  BY <1>5 DEF Said
<1>7. Promised!Only(n)
  BY <1>6 DEF Promised!Only, Said
<1>8. Promised!Unsent
  BY <1>2 DEF Promised!Unsent
<1> QED BY <1>2, <1>4, <1>7, <1>8 DEF Promised!Change

\* Two words that take the place of those of a header.
LEMMA FirstLineSound ==
  ASSUME NEW h, HeaderSound(h), NEW first, IsWords(first), NEW second, IsWords(second),
         NEW g, g = WithFirstLine(h, first, second)
  PROVE  HeaderSound(g) /\ g.headers = h.headers
<1>1. g = [first |-> first, second |-> second, name |-> h.name, headers |-> h.headers,
           version |-> h.version, type |-> h.type, sum |-> h.sum, length |-> h.length,
           timestamp |-> h.timestamp, protocol |-> h.protocol]
  BY DEF HeaderSound, IsHeader, WithFirstLine
<1> QED BY <1>1 DEF HeaderSound, IsHeader

\* What moving leaves of a header.
LEMMA LeftSound ==
  ASSUME NEW h, HeaderSound(h), NEW first, IsWords(first), NEW g,
         g = [h EXCEPT !.first = first, !.second = <<>>, !.name = ""]
  PROVE  HeaderSound(g)
<1>1. g = [first |-> first, second |-> <<>>, name |-> "", headers |-> h.headers,
           version |-> h.version, type |-> h.type, sum |-> h.sum, length |-> h.length,
           timestamp |-> h.timestamp, protocol |-> h.protocol]
  BY DEF HeaderSound, IsHeader
<1>2. IsHeader(g) /\ g.first = first /\ g.second = <<>> /\ g.headers = h.headers
  BY <1>1 DEF IsHeader
<1> QED BY <1>2, EmptySeq DEF HeaderSound, IsWords

LEMMA HeaderCallStep ==
  ASSUME MessageInv, ~KeepsReferences, NEW n \in Names, HeaderCall(n)
  PROVE  MessageInv' /\ Promised!Change(n)
<1>1. MessageSound(message[n]) /\ format \in {"request", "response"}
  BY DEF MessageInv
<1>2. PICK h \in Setter(message[n].header), kept \in {FALSE, KeepsReferences} :
          Sets(n, [message[n] EXCEPT !.header = h, !.cached = IF kept THEN @ ELSE Unmade])
  BY DEF HeaderCall
<1>3. HeaderSound(h)
  BY <1>1, SetterSound DEF MessageSound
<1>4. kept = FALSE
  BY MessageAssumption DEF MessageAssumption
<1>5. [message[n] EXCEPT !.header = h, !.cached = IF kept THEN @ ELSE Unmade]
          = NewMessage(h, message[n].body)
  BY <1>1, <1>4, HeaderEdited DEF MessageSound
<1> QED BY <1>2, <1>3, <1>5, Changes DEF HeaderCall

LEMMA SetMessageStep ==
  ASSUME MessageInv, NEW n \in Names, SetMessage(n)
  PROVE  MessageInv' /\ Promised!Change(n)
<1>1. MessageSound(message[n])
  BY DEF MessageInv
<1>2. PICK b \in Bodies : Sets(n, [message[n] EXCEPT !.body = b, !.cached = Unmade])
  BY DEF SetMessage
<1>a. PICK m : m = [message[n] EXCEPT !.body = b, !.cached = Unmade]
  OBVIOUS
<1>3. m = NewMessage(message[n].header, b)
  BY <1>1, <1>a, BodyEdited DEF MessageSound
<1> QED BY <1>1, <1>2, <1>a, <1>3, Changes DEF SetMessage, MessageSound

LEMMA CreateStep ==
  ASSUME MessageInv, NEW n \in Names, Create(n)
  PROVE  MessageInv' /\ Promised!Change(n)
<1>1. PICK code \in FirstsOf[format], what \in SecondsOf[format], b \in Bodies :
          Sets(n, NewMessage(WithFirstLine(DefaultHeader(format), code, what), b))
  BY DEF Create
<1>2. format \in {"request", "response"}
  BY DEF MessageInv
<1>3. IsWords(code) /\ IsWords(what)
  BY <1>2, MessageAssumption DEF MessageAssumption, IsWords
<1>4. HeaderSound(WithFirstLine(DefaultHeader(format), code, what))
  BY <1>2, <1>3, DefaultSound, FirstLineSound
<1> QED BY <1>1, <1>4, Changes DEF Create

LEMMA CopyStep ==
  ASSUME MessageInv, NEW to \in Names, NEW from \in Names, Copy(to, from)
  PROVE  MessageInv' /\ Promised!Change(to)
<1>1. MessageSound(message[to]) /\ MessageSound(message[from])
  BY DEF MessageInv
<1>2. PICK m : /\ m = [message[to] EXCEPT !.header = message[from].header,
                                          !.body = message[from].body, !.cached = Unmade]
               /\ Sets(to, m)
  BY DEF Copy
<1>3. m = NewMessage(message[from].header, message[from].body)
  <2> DEFINE x == message[to]
             y == message[from]
  <2>1. x = [header |-> x.header, body |-> x.body, cached |-> x.cached]
    BY <1>1 DEF MessageSound
  <2>2. m = [x EXCEPT !.header = y.header, !.body = y.body, !.cached = Unmade]
    BY <1>2
  <2> HIDE DEF x, y
  <2>3. m = NewMessage(y.header, y.body)
    BY <2>1, <2>2, AllEdited
  <2> QED BY <2>3 DEF y
<1> QED BY <1>1, <1>2, <1>3, Changes DEF Copy, MessageSound

LEMMA MoveStep ==
  ASSUME MessageInv, NEW to \in Names, NEW from \in Names, Move(to, from)
  PROVE  MessageInv' /\ Promised!MoveAway(to, from)
<1> DEFINE m == message[from]
           rest == [m.header EXCEPT !.first = IF format = "request" THEN <<>> ELSE @,
                                    !.second = <<>>, !.name = ""]
           left == NewMessage(rest, <<>>)
<1>1. MessageSound(m) /\ HeaderSound(m.header)
  BY DEF MessageInv, MessageSound
<1>2. /\ to # from /\ Quiet
      /\ message' = [message EXCEPT ![to] = m, ![from] = left]
  BY DEF Move
<1>3. HeaderSound(rest)
  <2> DEFINE first == IF format = "request" THEN <<>> ELSE m.header.first
  <2>1. IsWords(first)
    BY <1>1, EmptySeq DEF HeaderSound, IsWords
  <2>2. rest = [m.header EXCEPT !.first = first, !.second = <<>>, !.name = ""]
    OBVIOUS
  <2> HIDE DEF first, m, rest
  <2> QED BY <1>1, <2>1, <2>2, LeftSound
<1>4. MessageSound(left)
  BY <1>3, NewSound
<1> HIDE DEF m, left
<1>5. /\ DOMAIN message' = Names
      /\ \A i \in Names : message'[i] = IF i = from THEN left ELSE IF i = to THEN m ELSE message[i]
  BY <1>2 DEF MessageInv
<1>6. \A i \in Names : MessageSound(message'[i])
  BY <1>1, <1>4, <1>5 DEF MessageInv
<1>7. format' = format /\ sent' = sent /\ verdict' = "none"
  BY <1>2 DEF Quiet
<1>8. MessageInv'
  <2>1. \A i \in Names : MessageSound(message[i])'
    BY <1>6, <1>7, FormatKeepsMessage
  <2>2. SentSound(sent)'
    BY <1>7, FormatKeepsSent DEF MessageInv
  <2> QED BY <1>5, <1>7, <2>1, <2>2 DEF MessageInv
<1>9. Said' = [Said EXCEPT ![to] = Said[from], ![from] = Said'[from]]
  <2>1. \A i \in Names : Said'[i] = IF i = from THEN Said'[from]
                                    ELSE IF i = to THEN Said[from] ELSE Said[i]
    BY <1>5 DEF Said, m
  <2>2. DOMAIN Said = Names /\ Said' = [i \in Names |-> Said'[i]]
    BY DEF Said
  <2>3. [Said EXCEPT ![to] = Said[from], ![from] = Said'[from]] =
           [i \in Names |-> IF i = from THEN Said'[from]
                            ELSE IF i = to THEN Said[from] ELSE Said[i]]
    BY <2>2
  <2> QED BY <2>1, <2>2, <2>3
<1>10. Promised!MoveAway(to, from)
  BY <1>7, <1>9 DEF Promised!MoveAway, Promised!Unsent, Said
<1> QED BY <1>8, <1>10

-----------------------------------------------------------------------------
\* What is made of a message says what the message says.
LEMMA SerialisedSound ==
  ASSUME NEW m, MessageSound(m), NEW y, y = Serialised(m)
  PROVE  /\ MessageSound(y) /\ y.body = m.body
         /\ Content(y.header, y.body) = Content(m.header, m.body)
         /\ Checked(y.header, y.body) /\ y.cached = TextOf(y.header, y.body)
<1> DEFINE g == CalculateAndSetChecksum(m.header, m.body)
<1>1. /\ HeaderSound(g) /\ Checked(g, m.body)
      /\ Content(g, m.body) = Content(m.header, m.body)
  BY ChecksumSound DEF MessageSound
<1> HIDE DEF g
<1>2. CASE m.cached # Unmade
  BY <1>2 DEF Serialised, MessageSound, CacheFresh
<1>3. CASE m.cached = Unmade
  <2>1. y = [m EXCEPT !.header = g, !.cached = TextOf(g, m.body)]
    BY <1>3 DEF Serialised, TextOf, g
  <2>2. m = [header |-> m.header, body |-> m.body, cached |-> m.cached]
    BY DEF MessageSound
  <2>3. y = [header |-> g, body |-> m.body, cached |-> TextOf(g, m.body)]
    BY <2>1, <2>2
  <2> QED BY <1>1, <2>3 DEF MessageSound, CacheFresh
<1> QED BY <1>2, <1>3

LEMMA TextSound ==
  ASSUME NEW h, HeaderSound(h), NEW body
  PROVE  SentSound(TextOf(h, body)) /\ SentSound(JsonOf(h, body))
<1>1. SentSound(TextOf(h, body))
  <2>1. TextOf(h, body).head = HeaderText(h) /\ TextOf(h, body).body = body
    BY DEF TextOf
  <2>2. TextOf(h, body).as = "text"
    BY DEF TextOf
  <2>3. TextOf(h, body) = [as |-> "text", head |-> HeaderText(h), body |-> body]
    BY DEF TextOf
  <2> QED BY <2>1, <2>2, <2>3, HeadOfText DEF SentSound
<1>2. SentSound(JsonOf(h, body))
  BY DEF SentSound, JsonOf
<1> QED BY <1>1, <1>2

LEMMA SerialiseStep ==
  ASSUME MessageInv, NEW n \in Names, Serialise(n)
  PROVE  MessageInv' /\ Promised!MakeText(n)
<1> DEFINE m == message[n]
           y == Serialised(m)
<1>1. MessageSound(m)
  BY DEF MessageInv
<1>2. /\ MessageSound(y) /\ Content(y.header, y.body) = Content(m.header, m.body)
      /\ Checked(y.header, y.body) /\ y.cached = TextOf(y.header, y.body)
  BY <1>1, SerialisedSound
<1>3. Sets(n, y) /\ sent' = message'[n].cached /\ verdict' = "none" /\ format' = format
  BY DEF Serialise
<1> HIDE DEF y, m
<1>4. sent' = TextOf(y.header, y.body)
  BY <1>2, <1>3, OneSet
<1>5. SentSound(sent')
  BY <1>2, <1>4, TextSound DEF MessageSound
<1>6. MessageInv'
  BY <1>2, <1>3, <1>5, OneKeeps
<1>7. Said' = Said
  BY <1>2, <1>3, SameSaid DEF m
<1>8. Sent(sent') = Promised!TextOf(Said[n])
  BY <1>2, <1>4, TextSays DEF Said, m
<1> QED BY <1>3, <1>6, <1>7, <1>8 DEF Promised!MakeText, Said

LEMMA ToJsonStep ==
  ASSUME MessageInv, NEW n \in Names, ToJson(n)
  PROVE  MessageInv' /\ Promised!MakeJson(n)
<1> DEFINE m == message[n]
           g == CalculateAndSetChecksum(m.header, m.body)
<1>1. MessageSound(m)
  BY DEF MessageInv
<1>2. /\ HeaderSound(g) /\ Checked(g, m.body)
      /\ Content(g, m.body) = Content(m.header, m.body)
      /\ Checked(m.header, m.body) => g = m.header
  BY <1>1, ChecksumSound DEF MessageSound
<1>3. PICK y : y = [m EXCEPT !.header = g] /\ Sets(n, y)
  BY DEF ToJson
<1>4. sent' = JsonOf(g, m.body) /\ verdict' = "none" /\ format' = format
  BY DEF ToJson, JsonOf
<1> HIDE DEF g, m
<1>5. y = [header |-> g, body |-> m.body, cached |-> m.cached]
  BY <1>1, <1>3 DEF MessageSound
<1>6. MessageSound(y)
  BY <1>1, <1>2, <1>5 DEF MessageSound, CacheFresh
<1>7. SentSound(sent')
  BY <1>2, <1>4, TextSound
<1>8. MessageInv'
  BY <1>3, <1>4, <1>6, <1>7, OneKeeps
<1>9. Said' = Said
  BY <1>2, <1>3, <1>5, SameSaid DEF m
<1>10. Sent(sent') = Promised!JsonOf(Said[n])
  BY <1>2, <1>4, JsonSays DEF Said, m
<1> QED BY <1>4, <1>8, <1>9, <1>10 DEF Promised!MakeJson, Said

-----------------------------------------------------------------------------
\* A JSON object in the words of the promise.
LEMMA JsonSent ==
  ASSUME NEW s, NEW h, NEW body, s = JsonOf(h, body)
  PROVE  Sent(s) = [as |-> "json", content |-> Content(h, body), length |-> h.length,
                    sum |-> h.sum]
<1>1. s.as = "json" /\ s.header = h /\ s.body = body
  BY DEF JsonOf
<1> QED BY <1>1 DEF Sent

LEMMA OtherBody ==
  ASSUME NEW h, NEW body, NEW b, NEW c, c = [Content(h, body) EXCEPT !.body = b]
  PROVE  c = Content(h, b)
  BY DEF Content

LEMMA DamagedStep ==
  ASSUME MessageInv, Damaged
  PROVE  MessageInv' /\ Promised!Damage
<1>1. sent.as = "json" /\ verdict' = "none" /\ format' = format /\ message' = message
  BY DEF Damaged
<1>2. PICK b \in Bodies : sent' = [sent EXCEPT !.body = b]
  BY DEF Damaged
<1> DEFINE h == sent.header
           c == Content(h, sent.body)
           q == Sent(sent')
<1>3. sent = JsonOf(h, sent.body) /\ HeaderSound(h)
  BY <1>1 DEF MessageInv, SentSound, Unmade, JsonOf
<1>4. sent' = JsonOf(h, b)
  BY <1>2, <1>3 DEF JsonOf
<1>5. Sent(sent) = [as |-> "json", content |-> c, length |-> h.length, sum |-> h.sum]
  BY <1>3, JsonSent
<1>6. q = [as |-> "json", content |-> Content(h, b), length |-> h.length, sum |-> h.sum]
  BY <1>4, JsonSent
<1>7. q.as = "json" /\ q.content = Content(h, b) /\ Content(h, b).body = b
  BY <1>6 DEF Content
<1>8. \A d : d = [c EXCEPT !.body = b] => d = Content(h, b)
  BY OtherBody
<1> HIDE DEF h, c, q
<1>9. q = [Sent(sent) EXCEPT !.content.body = q.content.body]
  <2>1. [c EXCEPT !.body = b] = Content(h, b)
    BY <1>8
  <2> DEFINE p == Sent(sent)
             w == [p EXCEPT !.content.body = q.content.body]
  <2>2. w = [p EXCEPT !.content = [@ EXCEPT !.body = b]]
    BY <1>7
  <2>3. p.content = c
    BY <1>5
  <2> DEFINE x == Content(h, b)
  <2> HIDE DEF w, x
  <2>4. w = [p EXCEPT !.content = x]
    BY <2>1, <2>2, <2>3 DEF x
  <2> HIDE DEF p
  <2>5. w = [as |-> "json", content |-> x, length |-> h.length, sum |-> h.sum]
    BY <1>5, <2>4 DEF p
  <2> QED BY <1>6, <2>5 DEF w, p, x
<1>10. Promised!Damage
  BY <1>1, <1>5, <1>7, <1>9 DEF Promised!Damage, q
<1>11. SentSound(sent')
  BY <1>3, <1>4, TextSound
<1>12. MessageInv'
  <2>1. \A n \in Names : MessageSound(message[n])'
    BY <1>1, FormatKeepsMessage DEF MessageInv
  <2> QED BY <1>1, <1>11, <2>1, FormatKeepsSent DEF MessageInv
<1> QED BY <1>10, <1>12

\* No message reads its text: the empty line is missing.
LEMMA SentIsText ==
  ASSUME MessageInv, sent.as = "text"
  PROVE  sent = [as |-> "text", head |-> sent.head, body |-> sent.body] /\ HeadSound(sent.head)
<1>1. SentSound(sent)
  BY DEF MessageInv
<1>2. sent # Unmade
  BY DEF Unmade
<1>3. sent.as # "json"
  OBVIOUS
<1> QED BY <1>1, <1>2, <1>3 DEF SentSound

LEMMA FromStringStep ==
  ASSUME MessageInv, NEW n \in Names, FromString(n)
  PROVE  MessageInv' /\ Promised!RefuseText
<1> DEFINE h == message[n].header
           t == [sent.head EXCEPT !.ended = FALSE]
           read == HeaderFromString(h, t)
<1>1. /\ sent.as = "text" /\ format' = format /\ sent' = sent
      /\ Sets(n, Restored(message[n], read, sent.body))
      /\ verdict' = IF read.ok /\ VerifyIntegrity(read.header, sent.body)
                    THEN "read" ELSE "text refused"
  BY DEF FromString
<1>2. t.ended = FALSE
  <2>1. IsHead(sent.head)
    BY <1>1, SentIsText DEF HeadSound
  <2> DEFINE g == sent.head
  <2>2. "ended" \in DOMAIN g
    BY <2>1 DEF IsHead
  <2> HIDE DEF g
  <2>3. [g EXCEPT !.ended = FALSE].ended = FALSE
    BY <2>2
  <2> QED BY <2>3 DEF g
<1>3. read = [ok |-> FALSE, header |-> h]
  BY <1>2 DEF HeaderFromString, Refused
<1>4. Sets(n, message[n]) /\ verdict' = "text refused"
  <2> HIDE DEF read
  <2>1. read.ok = FALSE
    BY <1>3
  <2> QED BY <1>1, <2>1 DEF Restored
<1>5. Said' = Said
  BY <1>4, SameSaid
<1>6. MessageInv'
  BY <1>1, <1>4, OneKeeps DEF MessageInv
<1>7. Sent(sent).as = "text"
  BY <1>1 DEF Sent
<1> QED BY <1>1, <1>4, <1>5, <1>6, <1>7 DEF Promised!RefuseText, Promised!Unsent, Said

LEMMA FromJsonStep ==
  ASSUME MessageInv, NEW n \in Names, FromJson(n)
  PROVE  MessageInv' /\ (Promised!ReadJson(n) \/ Promised!Refuse)
<1> DEFINE m == message[n]
           j == sent.header
           read == HeaderFromJson(m.header, j)
           ok == read.ok /\ VerifyIntegrity(read.header, sent.body)
           c == Content(j, sent.body)
           p == Sent(sent)
<1>1. /\ sent.as = "json" /\ format' = format /\ sent' = sent
      /\ Sets(n, Restored(m, read, sent.body))
      /\ verdict' = IF ok THEN "read" ELSE "refused"
  BY DEF FromJson
<1>2. sent = JsonOf(j, sent.body) /\ HeaderSound(j)
  BY <1>1 DEF MessageInv, SentSound, Unmade, JsonOf
<1>3. MessageSound(m)
  BY DEF MessageInv
<1>4. /\ read.ok <=> Promised!Acceptable(c)
      /\ read.header = IF read.ok THEN j ELSE m.header
  <2>1. HeaderSound(m.header) /\ HeaderSound(j)
    BY <1>2, <1>3 DEF MessageSound
  <2>2. read = HeaderFromJson(m.header, j)
    OBVIOUS
  <2> HIDE DEF m, j, read
  <2> QED BY <2>1, <2>2, JsonRead DEF c
<1>5. p = [as |-> "json", content |-> c, length |-> j.length, sum |-> j.sum]
  BY <1>2, JsonSent
<1>6. p.as = "json" /\ p.content = c /\ p.length = j.length /\ p.sum = j.sum
  BY <1>5
<1>7. /\ c.body = sent.body
      /\ Promised!Sum(c) = CalculateCheckCode(j, sent.body)
  BY DEF Content, Promised!Sum, CalculateCheckCode
<1> HIDE DEF m, j, read, c, p
<1>8. Promised!Unsent
  BY <1>1 DEF Promised!Unsent
<1>9. ok <=> Promised!Acceptable(c) /\ Promised!Intact(p)
  BY <1>4, <1>6, <1>7 DEF Promised!Intact, VerifyIntegrity
<1>10. CASE ok
  <2>1. read.header = j
    BY <1>4, <1>10
  <2>2. PICK y : y = [m EXCEPT !.header = j, !.body = sent.body, !.cached = Unmade] /\ Sets(n, y)
    BY <1>1, <1>10, <2>1 DEF Restored
  <2>3. m = [header |-> m.header, body |-> m.body, cached |-> m.cached]
    BY <1>3 DEF MessageSound
  <2>4. y = NewMessage(j, sent.body)
    BY <2>2, <2>3, AllEdited
  <2>5. MessageSound(y) /\ y.header = j /\ y.body = sent.body
    BY <1>2, <2>4, NewSound
  <2>6. MessageInv'
    BY <1>1, <2>2, <2>5, OneKeeps DEF MessageInv
  <2>7. Said' = [Said EXCEPT ![n] = c]
    BY <2>2, <2>5, OneSaid DEF c
  <2>8. verdict' = "read"
    BY <1>1, <1>10
  <2>9. Promised!ReadJson(n)
    BY <1>6, <1>8, <1>9, <1>10, <2>7, <2>8 DEF Promised!ReadJson, Said, p
  <2> QED BY <2>6, <2>9
<1>11. CASE ~ok
  <2>1. Sets(n, m) /\ verdict' = "refused"
    BY <1>1, <1>11 DEF Restored
  <2>2. Said' = Said
    BY <2>1, SameSaid DEF m
  <2>3. MessageInv'
    BY <1>1, <1>3, <2>1, OneKeeps DEF MessageInv
  <2>4. Promised!Refuse
    BY <1>6, <1>8, <1>9, <1>11, <2>1, <2>2 DEF Promised!Refuse, Said, p
  <2> QED BY <2>3, <2>4
<1> QED BY <1>10, <1>11

LEMMA SentIsJson ==
  ASSUME MessageInv, sent.as = "json"
  PROVE  sent = JsonOf(sent.header, sent.body) /\ HeaderSound(sent.header)
<1>1. SentSound(sent)
  BY DEF MessageInv
<1>2. sent # Unmade
  BY DEF Unmade
<1>3. sent.as # "text"
  OBVIOUS
<1> QED BY <1>1, <1>2, <1>3 DEF SentSound, JsonOf

\* A header that was read from the JSON object, or that was left alone.
LEMMA WithBody ==
  ASSUME NEW h, NEW body, NEW b
  PROVE  [Content(h, b) EXCEPT !.body = body] = Content(h, body)
<1> DEFINE g == [Content(h, b) EXCEPT !.body = body]
<1>1. g = Content(h, body)
  BY OtherBody
<1> QED BY <1>1

LEMMA HeaderReadsStep ==
  ASSUME MessageInv, NEW n \in Names, HeaderReads(n)
  PROVE  MessageInv' /\ (Promised!ReadHeader(n) \/ Promised!Refuse)
<1> DEFINE m == message[n]
           read == IF sent.as = "text" THEN HeaderFromString(m.header, sent.head)
                   ELSE HeaderFromJson(m.header, sent.header)
           p == Sent(sent)
           c == Content(read.header, m.body)
<1>1. /\ sent.as # "nothing" /\ format' = format /\ sent' = sent
      /\ Sets(n, [m EXCEPT !.header = read.header, !.cached = Unmade])
      /\ verdict' = IF read.ok THEN "read" ELSE "refused"
  BY DEF HeaderReads
<1>2. MessageSound(m)
  BY DEF MessageInv
<1>3. HeaderSound(m.header)
  BY <1>2 DEF MessageSound
<1>4. m = [header |-> m.header, body |-> m.body, cached |-> m.cached]
  BY <1>2 DEF MessageSound
<1>5. sent.as = "text" \/ sent.as = "json"
  BY <1>1 DEF MessageInv, SentSound, Unmade
<1> DEFINE Reads == \/ p.as = "text" /\ Promised!HeaderOf(c, p)
                    \/ /\ p.as = "json" /\ Promised!Acceptable(p.content)
                       /\ c = [p.content EXCEPT !.body = m.body]
           Refuses == \/ p.as = "text" /\ ~Promised!Readable(p)
                      \/ p.as = "json" /\ ~Promised!Acceptable(p.content)
<1>6. /\ HeaderSound(read.header) /\ (~read.ok => read.header = m.header)
      /\ read.ok => Reads
      /\ ~read.ok => Refuses
  <2>1. CASE sent.as = "text"
    <3>1. sent = [as |-> "text", head |-> sent.head, body |-> sent.body] /\ HeadSound(sent.head)
      BY <2>1, SentIsText
    <3>2. read = HeaderFromString(m.header, sent.head)
      BY <2>1
    <3> HIDE DEF read, m, p
    <3>3. /\ HeaderSound(read.header)
          /\ ~read.ok => read.header = m.header
      BY <1>3, <3>1, <3>2, HeaderRead
    <3>4. read.ok => Promised!HeaderOf(c, Sent(sent))
      BY <1>3, <3>1, <3>2, ToldByText
    <3>5. ~read.ok => ~Promised!Readable(Sent(sent))
      BY <1>3, <3>1, <3>2, RefusedText
    <3>6. Sent(sent).as = "text"
      BY <2>1 DEF Sent
    <3> QED BY <3>3, <3>4, <3>5, <3>6 DEF p
  <2>2. CASE sent.as = "json"
    <3> DEFINE j == sent.header
    <3>1. sent = JsonOf(j, sent.body) /\ HeaderSound(j)
      BY <2>2, SentIsJson
    <3>2. read = HeaderFromJson(m.header, j)
      BY <2>2
    <3> DEFINE d == Content(j, sent.body)
    <3>3. p = [as |-> "json", content |-> d, length |-> j.length, sum |-> j.sum]
      BY <3>1, JsonSent
    <3> HIDE DEF read, m, p, j, d
    <3>4. p.as = "json" /\ p.content = d
      BY <3>3
    <3>5. /\ HeaderSound(read.header)
          /\ read.ok <=> Promised!Acceptable(d)
          /\ read.header = IF read.ok THEN j ELSE m.header
      BY <1>3, <3>1, <3>2, JsonRead DEF d
    <3>6. read.ok => c = [d EXCEPT !.body = m.body]
      BY <3>5, WithBody DEF d
    <3> QED BY <3>4, <3>5, <3>6
  <2> QED BY <1>5, <2>1, <2>2
<1>7. PICK y : y = [m EXCEPT !.header = read.header, !.cached = Unmade] /\ Sets(n, y)
  BY <1>1
<1>8. c.body = m.body
  BY DEF Content
<1> HIDE DEF m, read, p, c
<1>9. y = NewMessage(read.header, m.body)
  BY <1>4, <1>7, HeaderEdited
<1>10. MessageSound(y) /\ y.header = read.header /\ y.body = m.body
  BY <1>6, <1>9, NewSound
<1>11. MessageInv'
  BY <1>1, <1>7, <1>10, OneKeeps DEF MessageInv
<1>12. Said' = [Said EXCEPT ![n] = c]
  BY <1>7, <1>10, OneSaid DEF c
<1>13. Promised!Unsent
  BY <1>1 DEF Promised!Unsent
<1> HIDE DEF Reads, Refuses
<1>14. CASE read.ok
  <2>1. Said'[n] = c /\ Said[n].body = m.body
    BY <1>12 DEF Said, m, Content
  <2>2. Said' = [Said EXCEPT ![n] = Said'[n]]
    BY <1>12, <2>1
  <2>3. Reads /\ verdict' = "read"
    BY <1>1, <1>6, <1>14
  <2>4. Promised!Only(n)
    BY <2>2 DEF Promised!Only, Said
  <2>5. Said'[n].body = Said[n].body
    BY <1>8, <2>1
  <2>6. \/ p.as = "text" /\ Promised!HeaderOf(Said'[n], p)
        \/ /\ p.as = "json" /\ Promised!Acceptable(p.content)
           /\ Said'[n] = [p.content EXCEPT !.body = Said[n].body]
    BY <2>1, <2>3 DEF Reads
  <2>7. Promised!ReadHeader(n)
    BY <1>13, <2>3, <2>4, <2>5, <2>6 DEF Promised!ReadHeader, Said, p
  <2> QED BY <1>11, <2>7
<1>15. CASE ~read.ok
  <2>1. Refuses /\ verdict' = "refused" /\ read.header = m.header
    BY <1>1, <1>6, <1>15
  <2>2. Said' = Said
    BY <1>7, <1>10, <2>1, SameSaid DEF m
  <2>3. Promised!Refuse
    BY <1>13, <2>1, <2>2 DEF Promised!Refuse, Said, p, Refuses
  <2> QED BY <1>11, <2>3
<1> QED BY <1>14, <1>15

-----------------------------------------------------------------------------
LEMMA FirstHeadersSound ==
  ASSUME NEW fmt \in {"request", "response"}, NEW h \in FirstHeaders(fmt)
  PROVE  HeaderSound(h) /\ h.headers = NoFields
<1> DEFINE d == DefaultHeader(fmt)
<1>1. HeaderSound(d) /\ d.headers = NoFields
  BY DefaultSound
<1>2. CASE fmt = "response"
  BY <1>1, <1>2 DEF FirstHeaders
<1>3. CASE fmt # "response"
  <2>1. PICK first \in FirstsOf[fmt], second \in SecondsOf[fmt] :
            h = WithFirstLine(d, first, second)
    BY <1>3 DEF FirstHeaders
  <2>2. IsWords(first) /\ IsWords(second)
    BY MessageAssumption DEF MessageAssumption, IsWords
  <2> HIDE DEF d
  <2>3. HeaderSound(h) /\ h.headers = d.headers
    BY <1>1, <2>1, <2>2, FirstLineSound
  <2> QED BY <1>1, <2>3
<1> QED BY <1>2, <1>3

LEMMA InitStep == MessageInit => MessageInv /\ Promised!Init
<1> SUFFICES ASSUME MessageInit PROVE MessageInv /\ Promised!Init
  OBVIOUS
<1>1. format \in {"request", "response"} /\ sent = Unmade /\ verdict = "none"
  BY DEF MessageInit
<1>2. PICK h \in FirstHeaders(format) : message = [n \in Names |-> NewMessage(h, <<>>)]
  BY DEF MessageInit
<1>0. HeaderSound(h) /\ h.headers = NoFields
  BY <1>1, FirstHeadersSound
<1>3. \A n \in Names : MessageSound(message[n]) /\ message[n].header = h /\ message[n].body = <<>>
  BY <1>2, <1>0, NewSound
<1>4. MessageInv
  BY <1>1, <1>2, <1>3 DEF MessageInv, SentSound
<1>5. Sent(sent) = Unmade
  BY <1>1 DEF Sent, Unmade
<1>6. \A n \in Names : Said[n].headers = [k \in {} |-> ""] /\ Said[n].body = <<>>
  BY <1>2, <1>0, <1>3 DEF Said, Content, NoFields
<1> QED BY <1>1, <1>4, <1>5, <1>6 DEF Promised!Init, Said

\* A step of the code is a step of the promise.
LEMMA NextStep ==
  ASSUME ~KeepsReferences, MessageInv, [MessageNext]_messageVars
  PROVE  MessageInv' /\ [Promised!Next]_(Promised!vars)
<1>1. ASSUME NEW n \in Names,
             HeaderCall(n) \/ SetMessage(n) \/ Create(n) \/ Serialise(n) \/ ToJson(n)
                \/ FromString(n) \/ FromJson(n) \/ HeaderReads(n)
      PROVE  MessageInv' /\ Promised!Next
  BY <1>1, HeaderCallStep, SetMessageStep, CreateStep, SerialiseStep, ToJsonStep,
     FromStringStep, FromJsonStep, HeaderReadsStep DEF Promised!Next
<1>2. ASSUME NEW to \in Names, NEW from \in Names, Copy(to, from) \/ Move(to, from)
      PROVE  MessageInv' /\ Promised!Next
  BY <1>2, CopyStep, MoveStep DEF Promised!Next
<1>3. CASE Damaged
  BY <1>3, DamagedStep DEF Promised!Next
<1>4. CASE UNCHANGED messageVars
  <2>1. \A n \in Names : MessageSound(message[n])'
    BY <1>4, FormatKeepsMessage DEF messageVars, MessageInv
  <2>2. MessageInv'
    BY <1>4, <2>1, FormatKeepsSent DEF messageVars, MessageInv
  <2>3. UNCHANGED Promised!vars
    BY <1>4 DEF messageVars, Promised!vars
  <2> QED BY <2>2, <2>3
<1> QED BY <1>1, <1>2, <1>3, <1>4 DEF MessageNext

\* Over any history of setters, copies, moves and readings, a text or a JSON object says
\* what its message says when it is made, and a reader takes it in whole or leaves its
\* message as it was (ToString and FromJson in Protocol.hpp), unless a program writes
\* through a reference that Header() returned before the text was made.
THEOREM MessagesKeepThePromise ==
  ASSUME ~KeepsReferences PROVE MessageSpec => MessagesKept
<1>1. MessageInit => MessageInv /\ Promised!Init
  BY InitStep
<1>2. MessageInv /\ [MessageNext]_messageVars => MessageInv' /\ [Promised!Next]_(Promised!vars)
  BY NextStep
<1> QED BY <1>1, <1>2, PTL DEF MessageSpec, MessagesKept, Promised!Spec

LEMMA MessageInductive ==
  ASSUME ~KeepsReferences PROVE MessageSpec => []MessageInv
<1>1. MessageInit => MessageInv
  BY InitStep
<1>2. MessageInv /\ [MessageNext]_messageVars => MessageInv'
  BY NextStep
<1> QED BY <1>1, <1>2, PTL DEF MessageSpec

\* The text that ToString keeps is the one that the message would make now: whatever
\* changes a header or a body throws it away (the is_serialized flag).
NoStaleText == \A n \in Names : CacheFresh(message[n])
THEOREM CachedTextsAreFresh ==
  ASSUME ~KeepsReferences PROVE MessageSpec => []NoStaleText
<1>1. MessageInv => NoStaleText
  BY DEF MessageInv, MessageSound, NoStaleText
<1> QED BY <1>1, MessageInductive, PTL

\* FromString of a message never takes in a text that ToString made, and it leaves the
\* message as it was: the empty line that ends the header is cut off before the header
\* is read.  This is what the run message_text_refused finds, for every constant.
TextsRefused == \A n \in Names : FromString(n) => Said' = Said /\ verdict' = "text refused"
THEOREM NoTextIsTakenIn ==
  ASSUME ~KeepsReferences PROVE MessageSpec => [][TextsRefused]_messageVars
<1>1. ASSUME MessageInv PROVE TextsRefused
  <2> SUFFICES ASSUME NEW n \in Names, FromString(n)
               PROVE  Said' = Said /\ verdict' = "text refused"
    BY DEF TextsRefused
  <2> QED BY <1>1, FromStringStep DEF Promised!RefuseText, Said
<1>2. MessageInv => [TextsRefused]_messageVars
  BY <1>1
<1> QED BY <1>2, MessageInductive, PTL
=============================================================================
