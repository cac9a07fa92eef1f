---- MODULE MCMessage ----
\* First lines with and without a blank in them;
\* field keys in byte order, two of them with a blank in front and one all blank;
\* values with and without blanks around them.
EXTENDS Message

MCFirstsOf == [request |-> {<<"GET">>}, response |-> {<<"200">>}]
MCSecondsOf == [request |-> {<<"/">>, <<"/a", "b">>}, response |-> {<<"OK">>, <<"not", "found">>}]
MCAgents == {"agent "}
MCSorted == <<" ", " Server", " k", "Server", "User-Agent", "k">>
MCHeaderKeys == {MCSorted[i] : i \in DOMAIN MCSorted}
MCRank == [k \in MCHeaderKeys |-> CHOOSE i \in DOMAIN MCSorted : MCSorted[i] = k]
MCFieldValues == {"v", " w"}
MCTrimmed == [x \in {"", "agent", "w"} \union MCAgents \union MCHeaderKeys \union MCFieldValues |->
    CASE x = " " -> "" [] x = " Server" -> "Server" [] x = " k" -> "k"
      [] x = "agent " -> "agent" [] x = " w" -> "w" [] OTHER -> x]
MCBodies == {<<"x">>, <<"y">>}
MCTimestamps == {2}
====
