---------------------------- MODULE MCConnection ----------------------------
(***************************************************************************)
(* One connection, and beside it samples for the codec it reads and writes *)
(* with: packets of every type with the edges of each field, and inputs    *)
(* made of every header byte, of short bodies, and of packets with one     *)
(* byte changed, added or left out.                                        *)
(***************************************************************************)
EXTENDS Wire

MCStrings == {<<97>>, <<195, 169>>}     \* "a" and a two-byte character

MCWills == {[topic |-> <<97>>, payload |-> b, qos |-> q, retain |-> r] :
              b \in {<<>>}, q \in 0..2, r \in BOOLEAN}

MCConnects ==
    {[type |-> "CONNECT", level |-> 4, clean |-> i = <<>>, keepAlive |-> 65535, id |-> i,
      will |-> w, username |-> u[1], password |-> u[2]] :
        i \in {<<>>, <<97>>},
        w \in {{}} \cup {{x} : x \in MCWills},
        u \in {<<{}, {}>>, <<{<<>>}, {}>>, <<{<<97>>}, {<<>>}>>}}

MCPublishes ==
    {[type |-> "PUBLISH", dup |-> f[1], qos |-> f[2], retain |-> r, topic |-> t,
      id |-> f[3], payload |-> b] :
        f \in {<<FALSE, 0, 0>>, <<FALSE, 1, 1>>, <<TRUE, 1, 65535>>, <<TRUE, 2, 256>>},
        r \in BOOLEAN, t \in MCStrings, b \in {<<>>, <<0, 255>>}}

MCFilterLists == {<<[filter |-> <<35>>, qos |-> 0]>>,
                  <<[filter |-> <<97>>, qos |-> 2], [filter |-> <<>>, qos |-> 1]>>}

MCOthers ==
    {[type |-> t, id |-> i] : t \in Acks, i \in {1, 65535}}
    \cup {[type |-> t] : t \in Simples}
    \cup {[type |-> "CONNACK", sessionPresent |-> c = 0 /\ s, code |-> c] :
             s \in BOOLEAN, c \in 0..5}
    \cup {[type |-> "SUBSCRIBE", id |-> 258, filters |-> l] : l \in MCFilterLists}
    \cup {[type |-> "UNSUBSCRIBE", id |-> 258,
           filters |-> [i \in DOMAIN l |-> [l[i] EXCEPT !.qos = 0]]] : l \in MCFilterLists}
    \cup {[type |-> "SUBACK", id |-> 1, codes |-> c] : c \in {<<0>>, <<128, 2, 1>>}}

\* Remaining lengths of one byte and of two.
MCLarge == {[type |-> "PUBLISH", dup |-> FALSE, qos |-> 0, retain |-> FALSE, topic |-> <<97>>,
             id |-> 0, payload |-> [i \in 1..n |-> 97]] : n \in {124, 125}}

MCPackets == MCConnects \cup MCPublishes \cup MCOthers \cup MCLarge

MCLengths == UNION {{128^k - 1, 128^k} : k \in 0..3} \cup {128^4 - 1}

MCBodies(n) == UNION {[1..k -> {0, 1, 35, 97}] : k \in 0..n}
MCFramed(headers, n) == {<<h, Len(b)>> \o b : h \in headers, b \in MCBodies(n)}

MCChanged(p) ==
    LET e == Encode(p)
    IN  {ReplaceAt(e, i, b) : i \in DOMAIN e, b \in {0, 1, 3, 10, 35, 64, 128, 190, 255}}
        \cup {RemoveAt(e, i) : i \in DOMAIN e}
        \cup {Append(e, 97)}

MCInputs ==
    MCFramed(0..255, 2) \cup MCFramed({48, 51, 58, 130, 144, 162}, 5)
    \cup UNION {MCChanged(p) : p \in MCConnects \cup MCPublishes \cup MCOthers}
============================================================================
