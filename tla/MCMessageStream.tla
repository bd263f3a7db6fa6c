--------------------------- MODULE MCMessageStream --------------------------
(* All messages of the program with the ends of their ranges, and some in  *)
(* pairs; 15 stands for a message that a program could add.                *)
EXTENDS MessageStream

MCLayouts ==
  <<EncryptVer, CheckAct, Req_Heart, Resp_Heart, ReqKey, RespKey, DateTime, BatchProtocol,
    TestXieYi, SessionData, XieYiList, ReqGamePlayerConnect, RespGamePlayerConnect,
    RWDB_WinLossLog, <<SBig, UBig, Text(MaxString + 1)>>>>

Word(n) == [i \in 1..n |-> 1 + (i % (Base - 1))]

(* The least, the greatest and a middling value of a type.                 *)
Ends(f) ==
  CASE f.type \in {"signed", "sbig"} ->
         <<-(Power[f.size] \div 2), Power[f.size] \div 2 - 1, -1>>
    [] f.type \in {"unsigned", "ubig"} -> <<0, Power[f.size] - 1, Power[f.size] \div 2>>
    [] f.type = "chars" -> [i \in 1..3 |-> Word(f.size)]
    [] f.type \in {"text", "key", "data"} ->
         <<<<>>, Word(f.size), Word(Least(f.size, LongForm - 1))>>
    [] f.type = "vector" -> <<<<>>, Word(f.size), <<Power[f.of] - 1>>>>

EndsOf(id) ==
  {[id |-> id, vals |-> [i \in DOMAIN MCLayouts[id] |-> Ends(MCLayouts[id][i])[1 + ((i + j) % 3)]]] :
     j \in 0..2}

(* Big numbers around the ends of every narrower type.                     *)
Near(n) == {n - 1, n, n + 1}
SBigs == {0} \cup UNION {Near(Power[s] \div 2) \cup Near(-(Power[s] \div 2)) : s \in 1..3}
UBigs == {0} \cup UNION {Near(Power[s]) : s \in 1..3}
BigNumbers ==
  {[id |-> 15, vals |-> <<n, 0, <<>>>>] : n \in SBigs}
    \cup {[id |-> 15, vals |-> <<0, n, <<>>>>] : n \in UBigs}

Singles == UNION {EndsOf(id) : id \in DOMAIN MCLayouts} \cup BigNumbers

Longest == [id |-> 9, vals |-> <<Word(MaxData - 1)>>]
TooMuch == [id |-> 9, vals |-> <<Word(MaxData)>>]
Forbidden == [id |-> 13, vals |-> <<0, 0, 0, Word(SessionSize + 1)>>]
Heart == [id |-> 3, vals |-> <<Power[LongLong] - 1>>]
Key == [id |-> 5, vals |-> <<1>>]

MCScripts ==
  {[messages |-> <<m>>, crypt |-> m.id = 9, cuts |-> 1] : m \in Singles}
    \cup {[messages |-> <<m, n>>, crypt |-> FALSE, cuts |-> 1] :
            m, n \in {Longest, TooMuch, Forbidden, Heart, Key}}
    \cup {[messages |-> <<m, n>>, crypt |-> TRUE, cuts |-> 2] :
            m, n \in {Heart, Key}}
=============================================================================
