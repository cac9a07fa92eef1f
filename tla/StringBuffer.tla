---------------------------- MODULE StringBuffer ----------------------------
(***************************************************************************)
(* StringContainer::String (Wan/Container/String.hpp): a buffer of one     *)
(* byte more than its capacity, a terminator behind the text.  The buffer  *)
(* of a string that was moved from is null.  A byte nothing was written to *)
(* is Junk.  room says that an allocation succeeds.  Letters are positive  *)
(* integers, an odd one the lower case of the next.                        *)
(***************************************************************************)
EXTENDS Integers, Sequences

CONSTANT MaximumSize

End0 == 0
Junk == -1

MovedFrom == [null |-> TRUE, size |-> 0, capacity |-> 0, bytes |-> << >>]

\* The new buffer that holds the text and its terminator.
Buffer(text, capacity) ==
    [null |-> FALSE, size |-> Len(text), capacity |-> capacity,
     bytes |-> [i \in 1..capacity + 1 |-> IF i <= Len(text) THEN text[i]
                                          ELSE IF i = Len(text) + 1 THEN End0 ELSE Junk]]
NewString(text) == Buffer(text, Len(text))

Text(s) == SubSeq(s.bytes, 1, s.size)
Ok(s)     == [ok |-> TRUE, s |-> s]
Throws(s) == [ok |-> FALSE, s |-> s]

\* memcpy, memmove and fill: the bytes from index at on are those of text.
Write(bytes, at, text) ==
    [i \in DOMAIN bytes |-> IF i - at \in DOMAIN text THEN text[i - at] ELSE bytes[i]]

\* The size is set and the terminator written; what lies behind it counts as
\* unwritten.
Terminate(s, n) ==
    [s EXCEPT !.size = n, !.bytes = [i \in DOMAIN @ |-> IF i <= n THEN @[i]
                                                        ELSE IF i = n + 1 THEN End0 ELSE Junk]]

\* A null buffer is replaced whatever its capacity is.
AllocateResources(s, capacity, room) ==
    LET old == IF s.null THEN <<End0>> ELSE SubSeq(s.bytes, 1, s.size + 1)
        new == Write([i \in 1..capacity + 1 |-> Junk], 0, old)
    IN IF capacity > MaximumSize THEN Throws(s)
       ELSE IF capacity <= s.capacity /\ ~s.null THEN Ok(s)
       ELSE IF ~room THEN Throws(s)
       ELSE Ok([null |-> FALSE, size |-> s.size, capacity |-> capacity,
                bytes |-> [new EXCEPT ![s.size + 1] = End0]])

\* Up to n bytes: the room is made, then the bytes are changed by Put.
Grown(s, n, capacity, room, Put(_)) ==
    LET r == AllocateResources(s, capacity, room)
    IN IF n > MaximumSize \/ ~r.ok THEN Throws(s)
       ELSE Ok(Terminate([r.s EXCEPT !.bytes = Put(@)], n))

\* PushBack of a character doubles the capacity.
PushBack(s, c, room) ==
    LET n == s.size + 1
        doubled == IF s.capacity = 0 THEN 2
                   ELSE IF s.capacity > MaximumSize \div 2 THEN MaximumSize ELSE 2 * s.capacity
        Put(bytes) == Write(bytes, s.size, <<c>>)
    IN Grown(s, n, IF n <= s.capacity THEN s.capacity ELSE IF doubled < n THEN n ELSE doubled,
             room, Put)

\* PushBack of a string, of a C string, and +=; of itself, the text is read in
\* the new buffer.
Extend(s, text, room) ==
    LET Put(bytes) == Write(bytes, s.size, text)
    IN IF text = << >> THEN Ok(s)
       ELSE Grown(s, s.size + Len(text), s.size + Len(text), room, Put)
ExtendSelf(s, room) ==
    LET Put(bytes) == Write(bytes, s.size, SubSeq(bytes, 1, s.size))
    IN IF s.size = 0 THEN Ok(s) ELSE Grown(s, 2 * s.size, 2 * s.size, room, Put)

\* The text from at on and the terminator move up, then the insertion is written.
InsertSubString(s, text, at, room) ==
    LET n == s.size + Len(text)
        Put(bytes) == Write(Write(bytes, at + Len(text), SubSeq(bytes, at + 1, s.size + 1)),
                            at, text)
    IN IF at > s.size THEN Throws(s) ELSE Grown(s, n, n, room, Put)
Prepend(s, text, room) == IF text = << >> THEN Ok(s) ELSE InsertSubString(s, text, 0, room)

Resize(s, n, c, room) ==
    LET Put(bytes) == Write(bytes, s.size, [i \in 1..n - s.size |-> c])
    IN IF n > s.size \/ s.null THEN Grown(s, n, n, room, Put)
       ELSE Ok(Terminate(s, n))

Reserve(s, capacity, room) == AllocateResources(s, capacity, room)

\* The buffer is as large as the source's; the target's is deleted last.
Assign(to, from, room) ==
    IF ~room THEN Throws(to)
    ELSE Ok(Buffer(IF from.null THEN << >> ELSE Text(from), from.capacity))
AssignText(to, text, room) ==
    IF Len(text) > MaximumSize \/ ~room THEN Throws(to) ELSE Ok(NewString(text))
MoveAssign(to, from) == [to |-> from, from |-> MovedFrom]

\* The text between two indices as a string of its own.
SubString(s, first, last, room) ==
    IF first > s.size \/ last > s.size \/ first > last THEN Throws(NewString(<< >>))
    ELSE Extend(NewString(<< >>), SubSeq(s.bytes, first + 1, last), room)
\* From the last to the first, pushed character by character.
ReverseSubString(s, first, last, room) ==
    LET word == [i \in 1..last - first |-> s.bytes[last + 1 - i]]
        pushed[k \in 0..Len(word)] ==
            IF k = 0 THEN Ok(NewString(<< >>))
            ELSE IF pushed[k - 1].ok THEN PushBack(pushed[k - 1].s, word[k], room)
            ELSE pushed[k - 1]
    IN IF first > s.size \/ last > s.size \/ first > last \/ s.size = 0
       THEN Throws(NewString(<< >>)) ELSE pushed[Len(word)]

Cased(s, Letter(_)) ==
    [s EXCEPT !.bytes = [i \in DOMAIN @ |-> IF i <= s.size THEN Letter(@[i]) ELSE @[i]]]
Uppercase(s) == Cased(s, LAMBDA c : IF c % 2 = 1 THEN c + 1 ELSE c)
Lowercase(s) == Cased(s, LAMBDA c : IF c > 0 /\ c % 2 = 0 THEN c - 1 ELSE c)

\* The buffer holds the text, all of it written, and its terminator.
Terminated(s) ==
    IF s.null THEN s = MovedFrom
    ELSE /\ Len(s.bytes) = s.capacity + 1 /\ s.size <= s.capacity
         /\ s.bytes[s.size + 1] = End0
         /\ \A i \in 1..s.size : s.bytes[i] # Junk
=============================================================================
