--------------------------- MODULE MCConnection ---------------------------
(* The instance of Connection that TLC checks: headers of two bytes, hellos  *)
(* of two, and streams that are right or wrong in one place each.            *)
EXTENDS Connection

Label(t) == [text |-> t, len |-> 3, hyphen |-> FALSE, alnum |-> TRUE, upper |-> FALSE]
Org == Label("org")
Good == <<Label("api"), Org>>
Capital == <<[Label("api") EXCEPT !.upper = TRUE], Org>>
Stranger == <<Label("www"), Org>>
Dashed == <<[Label("-ap") EXCEPT !.hyphen = TRUE], Org>>

Entry(name) == [type |-> "host", name |-> name]
Ext(type, list) == [type |-> type, list |-> list, trailing |-> FALSE, cut |-> FALSE]
Sni(name) == Ext("server_name", <<Entry(name)>>)
HelloWith(exts) ==
    [session |-> 32, ciphers |-> 2, compression |-> 1, exts |-> exts, trailing |-> FALSE, size |-> 2]
Plain == HelloWith(<<Ext("other", <<>>), Sni(Good)>>)

\* The forms of a hello that the parser tells apart; `plain` is in order.
ManyHellos ==
    [plain |-> Plain, capital |-> HelloWith(<<Sni(Capital)>>), stranger |-> HelloWith(<<Sni(Stranger)>>),
     dashed |-> HelloWith(<<Sni(Dashed)>>), nameless |-> HelloWith(<<>>),
     twice |-> HelloWith(<<Sni(Good), Sni(Good)>>), ech |-> HelloWith(<<Sni(Good), Ext("ech", <<>>)>>),
     noEntry |-> HelloWith(<<Ext("server_name", <<>>)>>),
     twoEntries |-> HelloWith(<<Ext("server_name", <<Entry(Good), Entry(Stranger)>>)>>),
     otherEntry |-> HelloWith(<<Ext("server_name", <<[Entry(Good) EXCEPT !.type = "other"]>>)>>),
     listTrail |-> HelloWith(<<[Sni(Good) EXCEPT !.trailing = TRUE]>>),
     cut |-> HelloWith(<<[Sni(Good) EXCEPT !.cut = TRUE]>>),
     session |-> [Plain EXCEPT !.session = 33], noCipher |-> [Plain EXCEPT !.ciphers = 0],
     oddCipher |-> [Plain EXCEPT !.ciphers = 3], noMethod |-> [Plain EXCEPT !.compression = 0],
     trailing |-> [Plain EXCEPT !.trailing = TRUE], large |-> [Plain EXCEPT !.size = 4],
     huge |-> [Plain EXCEPT !.size = 7]]

Split(bytes, n) == RecordOf(SubSeq(bytes, 1, n)) \o RecordOf(SubSeq(bytes, n + 1, Len(bytes)))
Declares(n) == [i \in 1..HsHeader |-> <<"hs", "client_hello", n>>] \o Body("plain")
Msg == Message("plain")

\* One record for every hello; then the ways to frame a good one: cut in
\* two, in the header or after it, or in three; a wrong or missing type; a
\* declared length that is zero, too short or too long; a record too long;
\* something after it; an end in the middle.
ManyStreams ==
    {RecordOf(Message(h)) : h \in DOMAIN Hellos \ {"capital"}}
      \cup {Split(Message("capital"), 1), Split(Message("stranger"), 2), Split(Message("cut"), 3),
           Split(Message("huge"), 5)}
      \cup {RecordOf(SubSeq(Msg, 1, 1)) \o Split(SubSeq(Msg, 2, 4), 1),
            RecordHeader("alert", 4) \o Msg, RecordOf(Body("plain")), <<<<"junk">>, <<"junk">>>>,
            RecordHeader("handshake", 0) \o RecordOf(Msg),
            RecordOf(Declares(1)), RecordOf(Declares(3)), RecordOf(Declares(9)),
            RecordOf(Msg \o <<<<"junk">>>>), RecordOf(Msg) \o <<<<"junk">>>>,
            SubSeq(RecordOf(Msg), 1, 5)}

Allowlist == (Good :> <<"ip1", "ip2">>)
=============================================================================
