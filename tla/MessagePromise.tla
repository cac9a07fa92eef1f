--------------------------- MODULE MessagePromise ---------------------------
(***************************************************************************)
(* What a program relies on when messages travel as text or JSON: a        *)
(* message is its first line, its fields and its body.  No text is stored  *)
(* and no length or checksum; both are what the body makes them.           *)
(***************************************************************************)
EXTENDS Integers, Sequences, FiniteSets

CONSTANTS Names, Trimmed, Latest, MaxFields, Unmade

VARIABLES format, content, sent, verdict
vars == <<format, content, sent, verdict>>

Reserved == {"User-Agent", "Timestamp", "Server"}
Sum(c) == IF c.type = "Custom" THEN <<>> ELSE c.body
Timely(t) == 0 <= t /\ t <= Latest

LinesOf(c) == {<<k, c.headers[k]>> : k \in DOMAIN c.headers}
TextOf(c) ==
    [as |-> "text", words |-> c.first \o c.second, name |-> c.name, version |-> c.version, type |-> c.type,
     timestamp |-> c.timestamp, length |-> Len(c.body), sum |-> Sum(c), body |-> c.body,
     fields |-> LinesOf(c)]
JsonOf(c) == [as |-> "json", content |-> c, length |-> Len(c.body), sum |-> Sum(c)]

\* What the lines of a text tell: blanks around keys and values do not count.
Told(t) == {<<Trimmed[f[1]], Trimmed[f[2]]>> : f \in t.fields}
OwnKey == IF format = "request" THEN "User-Agent" ELSE "Server"
Unpadded(t) == \A f \in t.fields : Trimmed[f[1]] = f[1]
\* A first line of six words, few enough fields, and none with blanks around its key.
Readable(t) ==
    /\ Len(t.words) = 2 /\ Timely(t.timestamp)
    /\ Cardinality(t.fields) <= MaxFields /\ Unpadded(t)
\* What was not damaged on the way and can be the content of a message.
Intact(j) == j.length = Len(j.content.body) /\ j.sum = Sum(j.content)
Acceptable(c) ==
    /\ c.first # <<>> /\ c.second # <<>> /\ Timely(c.timestamp)
    /\ DOMAIN c.headers \intersect Reserved = {}

\* A header that was read says what the text tells, a value for every key, and nothing
\* else; a line whose key is told to be the header's own gives the name.
HeaderOf(c, t) ==
    LET keys == {f[1] : f \in Told(t)}
    IN  /\ c.first \o c.second = t.words /\ c.version = t.version /\ c.type = t.type
        /\ c.timestamp = t.timestamp
        /\ LinesOf(c) \subseteq Told(t) /\ DOMAIN c.headers = keys \ {OwnKey}
        /\ IF OwnKey \in keys THEN <<OwnKey, c.name>> \in Told(t) ELSE c.name = Trimmed[t.name]

Only(n) == content' = [content EXCEPT ![n] = content'[n]]
Unsent == UNCHANGED <<format, sent>>
Init ==
    /\ format \in {"request", "response"} /\ sent = Unmade /\ verdict = "none"
    /\ \A n \in Names : content[n].headers = [k \in {} |-> ""] /\ content[n].body = <<>>

\* Setters, constructors and assignments of one message.  A reading is told apart by its
\* verdict, so that it cannot pass for one of them.
Change(n) == Only(n) /\ Unsent /\ verdict' = "none"
MoveAway(to, from) ==
    /\ content' = [content EXCEPT ![to] = content[from], ![from] = content'[from]]
    /\ Unsent /\ verdict' = "none"
MakeText(n) == sent' = TextOf(content[n]) /\ verdict' = "none" /\ UNCHANGED <<format, content>>
MakeJson(n) == sent' = JsonOf(content[n]) /\ verdict' = "none" /\ UNCHANGED <<format, content>>
Damage ==
    /\ sent.as = "json" /\ sent'.as = "json"
    /\ sent' = [sent EXCEPT !.content.body = sent'.content.body]
    /\ verdict' = "none" /\ UNCHANGED <<format, content>>

ReadJson(n) ==
    /\ sent.as = "json" /\ Intact(sent) /\ Acceptable(sent.content)
    /\ content' = [content EXCEPT ![n] = sent.content]
    /\ verdict' = "read" /\ Unsent
\* Whether the text of a message can be read at all is left open here.
ReadText(n) ==
    /\ sent.as = "text" /\ Only(n) /\ HeaderOf(content'[n], sent)
    /\ content'[n].body = sent.body /\ sent.length = Len(sent.body) /\ sent.sum = Sum(sent)
    /\ verdict' = "read" /\ Unsent
RefuseText ==
    /\ sent.as = "text" /\ verdict' = "text refused" /\ UNCHANGED content /\ Unsent
ReadHeader(n) ==
    /\ Only(n) /\ content'[n].body = content[n].body
    /\ \/ sent.as = "text" /\ HeaderOf(content'[n], sent)
       \/ /\ sent.as = "json" /\ Acceptable(sent.content)
          /\ content'[n] = [sent.content EXCEPT !.body = content[n].body]
    /\ verdict' = "read" /\ Unsent
\* A JSON object, or a header of either kind.
Refuse ==
    /\ \/ sent.as = "text" /\ ~Readable(sent)
       \/ sent.as = "json" /\ ~(Intact(sent) /\ Acceptable(sent.content))
    /\ verdict' = "refused" /\ UNCHANGED content /\ Unsent

Next ==
    \/ \E n \in Names :
        \/ Change(n) \/ MakeText(n) \/ MakeJson(n)
        \/ ReadJson(n) \/ ReadText(n) \/ ReadHeader(n)
    \/ \E to, from \in Names : MoveAway(to, from)
    \/ Damage \/ RefuseText \/ Refuse
Spec == Init /\ [][Next]_vars
=============================================================================
