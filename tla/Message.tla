------------------------------ MODULE Message ------------------------------
(***************************************************************************)
(* Network/Agreement/Protocol.hpp and Assist.hpp: Request and Response     *)
(* objects with their headers, their cached texts, and the text or JSON    *)
(* that one object makes and another one reads.  A value of the first line *)
(* is the sequence of its words, for the parser splits that line at every  *)
(* blank; a body is the sequence of its bytes and has a checksum of its    *)
(* own.  Lengths stay within the limits that setters and parsers share.    *)
(***************************************************************************)
EXTENDS Integers, Sequences, FiniteSets

CONSTANTS
    Names,                  \* the objects of a program
    FirstsOf, SecondsOf,    \* per format: methods or status codes; targets or status messages
    Agents,                 \* values of User-Agent and of Server
    HeaderKeys, Rank,       \* the keys of fields, and their order by bytes
    FieldValues,            \* the values of fields
    Trimmed,                \* a key or a value without the blanks around it
    Bodies, Timestamps, Latest,
    MaxFields,              \* MaxHeaders - 10
    MaxEdits,               \* bound on the calls that change an object
    KeepsReferences         \* a header is written through a reference of an earlier call

VARIABLES
    format, message,
    sent,                   \* the last text or JSON object that was made
    verdict,                \* what became of a reading, when that was the last step
    edits
messageVars == <<format, message, sent, verdict, edits>>

Reserved == {"User-Agent", "Timestamp", "Server"}
ASSUME MessageAssumption ==
    /\ MaxFields \in Nat /\ MaxEdits \in Nat /\ Latest \in Nat /\ Timestamps \subseteq Int
    /\ KeepsReferences \in BOOLEAN
    /\ FirstsOf \in [{"request", "response"} -> SUBSET Seq(STRING)]
    /\ SecondsOf \in [{"request", "response"} -> SUBSET Seq(STRING)]
    /\ IsFiniteSet(HeaderKeys) /\ "" \notin HeaderKeys /\ Rank \in [HeaderKeys -> Nat]
    /\ HeaderKeys \union FieldValues \union Agents \union {""} \subseteq DOMAIN Trimmed
    /\ \A x \in DOMAIN Trimmed : Trimmed[x] \in DOMAIN Trimmed /\ Trimmed[Trimmed[x]] = Trimmed[x]
    /\ \A k \in HeaderKeys : Trimmed[k] \in HeaderKeys \union {""}

NoFields == [k \in {} |-> ""]
With(f, k, v) == [j \in DOMAIN f \union {k} |-> IF j = k THEN v ELSE f[j]]

DefaultHeader(fmt) ==
    [first |-> IF fmt = "request" THEN <<>> ELSE <<"200">>,
     second |-> IF fmt = "request" THEN <<>> ELSE <<"OK">>,
     name |-> "", headers |-> NoFields, version |-> 1, type |-> "Crc32", sum |-> <<>>,
     length |-> 0, timestamp |-> 0, protocol |-> "CustomTcp"]
Unmade == [as |-> "nothing"]
\* No cached text stands for one that is not valid.
NewMessage(h, body) == [header |-> h, body |-> body, cached |-> Unmade]

\* The first line that a Response is made with; a Request is made of a header that has one.
WithFirstLine(h, first, second) == [h EXCEPT !.first = first, !.second = second]
FirstHeaders(fmt) ==
    IF fmt = "response" THEN {DefaultHeader(fmt)}
    ELSE {WithFirstLine(DefaultHeader(fmt), first, second) :
             first \in FirstsOf[fmt], second \in SecondsOf[fmt]}
MessageInit ==
    /\ format \in {"request", "response"}
    /\ \E h \in FirstHeaders(format) : message = [n \in Names |-> NewMessage(h, <<>>)]
    /\ sent = Unmade /\ verdict = "none" /\ edits = 0

-----------------------------------------------------------------------------
\* The checksum of an empty body is 0, and so is every Custom one.
CalculateCheckCode(h, body) == IF h.type = "Custom" THEN <<>> ELSE body
CalculateAndSetChecksum(h, body) ==
    [h EXCEPT !.length = Len(body), !.sum = CalculateCheckCode(h, body)]
VerifyIntegrity(h, body) == Len(body) = h.length /\ CalculateCheckCode(h, body) = h.sum

\* ToString of a header; the fields come in the order of their keys, and an empty
\* line ends it.
HeaderText(h) ==
    [words |-> h.first \o h.second, version |-> h.version, type |-> h.type, sum |-> h.sum,
     length |-> h.length, name |-> h.name, timestamp |-> h.timestamp, ended |-> TRUE,
     fields |-> h.headers]

OwnKey == IF format = "request" THEN "User-Agent" ELSE "Server"
TimeOK(t) == 0 <= t /\ t <= Latest

\* The field lines of a text, one after the other.  A line for the header's own key
\* gives the name, which is not written when it is empty.
OwnLines(t) == {k \in DOMAIN t.fields : Trimmed[k] = OwnKey}
FieldLines(t) == DOMAIN t.fields \ OwnLines(t)
LastLine(lines) == CHOOSE k \in lines : \A j \in lines : Rank[j] <= Rank[k]
KeysBefore(t, k) == {Trimmed[j] : j \in {i \in FieldLines(t) : Rank[i] < Rank[k]}}

\* No key is blank, nothing but a field may be told twice, for every field there must
\* be room, for one that replaces an earlier one too, and of the MaxHeaders lines one
\* is the Timestamp and one the end.
LinesOK(t) ==
    /\ \A k \in DOMAIN t.fields : Trimmed[k] \notin {"", "Timestamp"}
    /\ Cardinality(DOMAIN t.fields) + (IF t.name = "" THEN 0 ELSE 1) <= MaxFields + 8
    /\ \A k \in OwnLines(t) : t.name = "" /\ OwnLines(t) = {k}
    /\ \A k \in FieldLines(t) : Cardinality(KeysBefore(t, k)) < MaxFields
\* Keys and values both lose the blanks around them.
NameIn(t) ==
    Trimmed[IF OwnLines(t) = {} THEN t.name ELSE t.fields[LastLine(OwnLines(t))]]
\* Mutant: a value keeps its blanks.
FieldsUntrimmed(t) ==
    [k \in {Trimmed[j] : j \in FieldLines(t)} |->
        t.fields[LastLine({j \in FieldLines(t) : Trimmed[j] = k})]]
FieldsIn(t) ==
    [k \in {Trimmed[j] : j \in FieldLines(t)} |->
        Trimmed[t.fields[LastLine({j \in FieldLines(t) : Trimmed[j] = k})]]]

Refused(h) == [ok |-> FALSE, header |-> h]
\* FromString of a header: six words in the first line, one Timestamp, every line
\* read, the empty one included.  The protocol type is not in the text.
HeaderFromString(h, t) ==
    IF ~LinesOK(t) \/ ~t.ended \/ Len(t.words) # 2 \/ ~TimeOK(t.timestamp) THEN Refused(h)
    ELSE [ok |-> TRUE, header |->
             [first |-> <<t.words[1]>>, second |-> <<t.words[2]>>, name |-> NameIn(t),
              headers |-> FieldsIn(t), version |-> t.version, type |-> t.type, sum |-> t.sum,
              length |-> t.length, timestamp |-> t.timestamp, protocol |-> h.protocol]]

BaseFromJson(j) == DOMAIN j.headers \intersect Reserved = {}
\* FromJson of a header takes over everything; ToJson leaves nothing out.
HeaderFromJson(h, j) ==
    IF BaseFromJson(j) /\ TimeOK(j.timestamp) /\ j.first # <<>> /\ j.second # <<>>
    THEN [ok |-> TRUE, header |-> j] ELSE Refused(h)

-----------------------------------------------------------------------------
Sets(n, m) == message' = [message EXCEPT ![n] = m]
Edits == edits < MaxEdits /\ edits' = edits + 1
Quiet == verdict' = "none" /\ UNCHANGED <<format, sent>>

\* What one call of a setter makes of a header: those of RequestHeader and
\* ResponseHeader, and those that both inherit.
OwnSetter(h) ==
    {[h EXCEPT !.first = x] : x \in FirstsOf[format]}
    \union {[h EXCEPT !.second = x] : x \in SecondsOf[format]}
    \union {[h EXCEPT !.name = x] : x \in Agents}
    \union {[h EXCEPT !.timestamp = x] : x \in Timestamps}
SetHeader(h) ==
    {[h EXCEPT !.headers = With(@, k, v)] : k \in HeaderKeys \ Reserved, v \in FieldValues}
RemoveHeader(h) == {[h EXCEPT !.headers = [j \in DOMAIN @ \ {k} |-> @[j]]] : k \in DOMAIN h.headers}
Setter(h) ==
    OwnSetter(h) \union SetHeader(h) \union RemoveHeader(h)
    \union {[h EXCEPT !.headers = NoFields]}
    \union {[h EXCEPT !.type = x] : x \in {"Crc32", "Custom"}}
    \union {[h EXCEPT !.protocol = x] : x \in {"CustomTcp", "JsonRpc"}}

\* Mutant: the text that was made before is kept.
HeaderCallKeeping(n) ==
    /\ Edits /\ Quiet
    /\ \E h \in Setter(message[n].header) : Sets(n, [message[n] EXCEPT !.header = h])

\* Header() and a setter, one of Response's own setters, or a setter on a reference
\* that an earlier Header() returned.
HeaderCall(n) ==
    /\ Edits /\ Quiet
    /\ \E h \in Setter(message[n].header), kept \in {FALSE, KeepsReferences} :
          Sets(n, [message[n] EXCEPT !.header = h, !.cached = IF kept THEN @ ELSE Unmade])

SetMessage(n) ==
    /\ Edits /\ Quiet
    /\ \E b \in Bodies : Sets(n, [message[n] EXCEPT !.body = b, !.cached = Unmade])

\* CreateSuccess, CreateError, CreateNotFound, CreateInternalError; Request has
\* constructors from a header only.
Create(n) ==
    /\ format = "response" /\ Edits /\ Quiet
    /\ \E code \in FirstsOf[format], what \in SecondsOf[format], b \in Bodies :
          Sets(n, NewMessage(WithFirstLine(DefaultHeader(format), code, what), b))

\* A copy has no text yet.
Copy(to, from) ==
    /\ to # from /\ Edits /\ Quiet
    /\ Sets(to, [message[to] EXCEPT !.header = message[from].header,
                        !.body = message[from].body, !.cached = Unmade])

\* ProtocolHeader declares its destructor, so that its members are copied even
\* here; the strings of the derived header, the body and the text are moved.
Move(to, from) ==
    LET m == message[from]
        rest == [m.header EXCEPT !.first = IF format = "request" THEN <<>> ELSE @,
                                 !.second = <<>>, !.name = ""]
    IN  /\ to # from /\ Edits /\ Quiet
        /\ message' = [message EXCEPT ![to] = m,
                           ![from] = NewMessage(rest, <<>>)]

-----------------------------------------------------------------------------
\* ToString of a message: the text is made unless there is one.
Serialised(m) ==
    LET h == CalculateAndSetChecksum(m.header, m.body)
    IN  IF m.cached # Unmade THEN m
        ELSE [m EXCEPT !.header = h,
                       !.cached = [as |-> "text", head |-> HeaderText(h), body |-> m.body]]
Serialise(n) ==
    /\ Sets(n, Serialised(message[n]))
    /\ sent' = message'[n].cached
    /\ verdict' = "none"
    /\ UNCHANGED <<format, edits>>

ToJson(n) ==
    LET m == message[n]
        h == CalculateAndSetChecksum(m.header, m.body)
    IN  /\ Sets(n, [m EXCEPT !.header = h])
        /\ sent' = [as |-> "json", header |-> h, body |-> m.body]
        /\ verdict' = "none"
        /\ UNCHANGED <<format, edits>>

\* The body of a JSON object changes on the way; a text is refused whatever happens to it.
Damaged ==
    /\ sent.as = "json" /\ Edits
    /\ \E b \in Bodies : sent' = [sent EXCEPT !.body = b]
    /\ verdict' = "none"
    /\ UNCHANGED <<format, message>>

\* A message takes over a header and a body that agree, or nothing.
Restored(m, read, body) ==
    IF read.ok /\ VerifyIntegrity(read.header, body)
    THEN [m EXCEPT !.header = read.header, !.body = body, !.cached = Unmade] ELSE m

\* FromString hands the header on up to the end of its last line, without the
\* empty line.
FromString(n) ==
    /\ sent.as = "text"
    /\ LET read == HeaderFromString(message[n].header, [sent.head EXCEPT !.ended = FALSE])
           ok == read.ok /\ VerifyIntegrity(read.header, sent.body)
       IN  /\ Sets(n, Restored(message[n], read, sent.body))
           /\ verdict' = IF ok THEN "read" ELSE "text refused"
    /\ UNCHANGED <<format, sent, edits>>

FromJson(n) ==
    /\ sent.as = "json"
    /\ LET read == HeaderFromJson(message[n].header, sent.header)
           ok == read.ok /\ VerifyIntegrity(read.header, sent.body)
       IN  /\ Sets(n, Restored(message[n], read, sent.body))
           /\ verdict' = IF ok THEN "read" ELSE "refused"
    /\ UNCHANGED <<format, sent, edits>>

\* Header().FromString and Header().FromJson.
HeaderReads(n) ==
    /\ sent.as # "nothing"
    /\ LET h == message[n].header
           read == IF sent.as = "text" THEN HeaderFromString(h, sent.head)
                   ELSE HeaderFromJson(h, sent.header)
       IN  /\ Sets(n, [message[n] EXCEPT !.header = read.header, !.cached = Unmade])
           /\ verdict' = IF read.ok THEN "read" ELSE "refused"
    /\ UNCHANGED <<format, sent, edits>>

MessageNext ==
    \/ \E n \in Names :
        \/ HeaderCall(n) \/ SetMessage(n) \/ Create(n)
        \/ Serialise(n) \/ ToJson(n) \/ FromString(n) \/ FromJson(n) \/ HeaderReads(n)
    \/ \E to, from \in Names : Copy(to, from) \/ Move(to, from)
    \/ Damaged
MessageSpec == MessageInit /\ [][MessageNext]_messageVars

-----------------------------------------------------------------------------
\* A message without what the code derives from the rest of it.
Content(h, body) ==
    [first |-> h.first, second |-> h.second, name |-> h.name, headers |-> h.headers,
     version |-> h.version, type |-> h.type, timestamp |-> h.timestamp,
     protocol |-> h.protocol, body |-> body]
Sent(t) ==
    CASE t.as = "text" ->
            [as |-> "text", words |-> t.head.words, name |-> t.head.name,
             version |-> t.head.version, type |-> t.head.type, timestamp |-> t.head.timestamp,
             length |-> t.head.length, sum |-> t.head.sum, body |-> t.body,
             fields |-> {<<k, t.head.fields[k]>> : k \in DOMAIN t.head.fields}]
      [] t.as = "json" ->
            [as |-> "json", content |-> Content(t.header, t.body),
             length |-> t.header.length, sum |-> t.header.sum]
      [] OTHER -> Unmade

\* Over any history of setters, copies, moves and readings, what a text or a JSON
\* object says is what its message says then, however often it was serialised
\* before (Protocol.hpp:636); a reader takes it in whole or not at all, refuses
\* only what is unreadable or damaged, and never takes over a damaged body.
Promised == INSTANCE MessagePromise WITH
    content <- [n \in Names |-> Content(message[n].header, message[n].body)],
    sent <- Sent(sent)
MessagesKept == Promised!Spec

\* FromString of a message takes in the text that ToString makes of a message whose
\* first line and fields can be read (Protocol.hpp:650, "parses a request from a
\* complete request string").
TextRestores == verdict = "text refused" => ~Promised!Readable(Sent(sent))
=============================================================================
