---------------------------- MODULE ClientHello ----------------------------
(***************************************************************************)
(* What the SNI proxy reads out of the first bytes of a connection         *)
(* (client_hello.rs): the scan of a growing buffer for a TLS ClientHello,  *)
(* which may be spread over several records, and the walk of its body.     *)
(*                                                                         *)
(* A stream is a sequence of bytes.  A byte is a tuple that says which     *)
(* field it belongs to: <<"rec", type, length>> in a record header,        *)
(* <<"hs", type, length>> in a handshake header, <<"body", h, i>> for the  *)
(* i-th byte of the hello h, <<"junk">> for anything else.  A length is    *)
(* the one the header declares, right or wrong.                            *)
(***************************************************************************)
EXTENDS Naturals, Sequences, FiniteSets, SequencesExt, FiniteSetsExt

CONSTANTS
    Hellos,       \* from the hellos to what they say, see below
    RecHeader,    \* bytes of a record header, 5 in the code
    HsHeader,     \* bytes of a handshake header, 4 in the code
    MaxRecord,    \* longest record body, 16384 in the code
    MaxRecords,   \* MAX_RECORDS
    MaxPeek       \* MAX_PEEK

ASSUME HelloAssumption ==
    /\ RecHeader \in Nat \ {0} /\ HsHeader \in Nat \ {0}
    /\ MaxRecord \in Nat \ {0} /\ MaxRecords \in Nat \ {0} /\ MaxPeek \in Nat \ {0}

IsSequence(s) == s \in Seq({s[i] : i \in DOMAIN s})

\* The sizes are numbers, and of no hello is the body empty.
ASSUME HellosAssumption ==
    \A h \in DOMAIN Hellos :
        LET hello == Hellos[h]  exts == hello.exts IN
        /\ hello.session \in Nat /\ hello.ciphers \in Nat /\ hello.compression \in Nat
        /\ hello.trailing \in BOOLEAN /\ hello.size \in Nat \ {0}
        /\ IsSequence(exts)
        /\ \A i \in DOMAIN exts :
              /\ exts[i].trailing \in BOOLEAN /\ exts[i].cut \in BOOLEAN
              /\ IsSequence(exts[i].list)

NoName == <<>>  \* what a ClientHello without a server_name extension names

\* What a part of the parser returns: None, or a name.
Fail == [ok |-> FALSE, name |-> NoName]
Some(name) == [ok |-> TRUE, name |-> name]

-----------------------------------------------------------------------------
(* The body.  What a hello says is a record: the sizes session, ciphers    *)
(* and compression, the sequence exts of extensions (empty also when there *)
(* is no extensions block), whether something is trailing after them, and  *)
(* the size of it all.  A name is a sequence of labels: their text, its    *)
(* length, whether it is alphanumeric or hyphens, whether a hyphen is at   *)
(* an end of it, and whether it has capitals.                              *)

\* The name in lower case.
Lower(name) == [i \in DOMAIN name |-> [name[i] EXCEPT !.upper = FALSE]]

NameLength(name) == FoldLeft(LAMBDA n, l : n + l.len + 1, 0, name) - 1

IsDnsName(name) ==
    /\ name # <<>> /\ NameLength(name) <= 253
    /\ \A i \in DOMAIN name : name[i].len \in 1..63 /\ ~name[i].hyphen /\ name[i].alnum

\* Mutant: the first of several entries is taken.
OneEntry_First(list) == list # <<>>

OneEntry(list) == Len(list) = 1

\* Exactly one host_name entry, and nothing after the list.
ParseSni(ext) ==
    IF ~ext.trailing /\ OneEntry(ext.list) /\ ext.list[1].type = "host"
         /\ IsDnsName(Lower(ext.list[1].name))
    THEN Some(Lower(ext.list[1].name)) ELSE Fail

\* One step of the walk over all extensions; w is what it has so far.
Extension(w, ext) ==
    IF ~w.ok \/ ext.cut \/ ext.type = "ech" THEN Fail
    ELSE IF ext.type # "server_name" THEN w
    ELSE IF w.name = NoName THEN ParseSni(ext) ELSE Fail

\* What the walk has after each number of extensions.
Walk(exts) ==
    LET w[i \in 0..Len(exts)] ==
            IF i = 0 THEN Some(NoName) ELSE Extension(w[i - 1], exts[i])
    IN  w

TryParse(h) ==
    IF h.session > 32 \/ h.ciphers = 0 \/ h.ciphers % 2 # 0 \/ h.compression = 0 \/ h.trailing
    THEN Fail ELSE Walk(h.exts)[Len(h.exts)]

-----------------------------------------------------------------------------
(* The encoding of a hello.                                                *)

Body(h) == [i \in 1..Hellos[h].size |-> <<"body", h, i>>]

Message(h) == [i \in 1..HsHeader |-> <<"hs", "client_hello", Hellos[h].size>>] \o Body(h)

RecordHeader(type, len) == [i \in 1..RecHeader |-> <<"rec", type, len>>]

RecordOf(bytes) == RecordHeader("handshake", Len(bytes)) \o bytes

-----------------------------------------------------------------------------
(* The two layers of framing.                                              *)

\* What is in the reassembled handshake bytes hs: "incomplete", "invalid"
\* or "hello".
HandshakeMessage(hs) ==
    IF Len(hs) < HsHeader THEN "incomplete"
    ELSE IF hs[1][1] # "hs" \/ hs[1][2] # "client_hello" THEN "invalid"
    ELSE LET total == HsHeader + hs[1][3] IN
         IF total > MaxPeek \/ Len(hs) > total THEN "invalid"
         ELSE IF Len(hs) < total THEN "incomplete" ELSE "hello"

\* The body of a message, if it is the whole encoding of a hello.
ParseBody(body) ==
    IF body # <<>> /\ body[1][1] = "body" /\ body = Body(body[1][2])
    THEN TryParse(Hellos[body[1][2]]) ELSE Fail

\* Bytes that follow the record in which the ClientHello ends.
Trailing(buf, off) == off # Len(buf)

\* Mutant: the message must be complete in the first record.
Missing_OneRecord == "invalid"

\* What the scan says of a message that needs another record.
Missing == "more"

\* One turn of the loop: s has the offset of the next record, the bytes
\* reassembled so far, and "more" or the verdict.
NextRecord(buf, s, k) ==
    LET rest == Len(buf) - s.off
        len == buf[s.off + 1][3]
        hs == s.hs \o SubSeq(buf, s.off + RecHeader + 1, s.off + RecHeader + len)
        off == s.off + RecHeader + len
    IN  IF rest < RecHeader THEN [s EXCEPT !.verdict = "incomplete"]
        ELSE IF buf[s.off + 1][1] # "rec" \/ buf[s.off + 1][2] # "handshake" \/ len \notin 1..MaxRecord
        THEN [s EXCEPT !.verdict = "invalid"]
        ELSE IF rest - RecHeader < len THEN [s EXCEPT !.verdict = "incomplete"]
        ELSE IF k > MaxRecords \/ Len(hs) > MaxPeek THEN [s EXCEPT !.verdict = "invalid"]
        ELSE LET m == HandshakeMessage(hs) IN
             [off |-> off, hs |-> hs,
              verdict |-> IF m = "incomplete" THEN Missing
                          ELSE IF m = "invalid" \/ Trailing(buf, off) THEN "invalid" ELSE "hello"]

\* What the loop has after each turn.
Turns(buf) ==
    LET s[k \in 0..(MaxRecords + 1)] ==
            IF k = 0 THEN [off |-> 0, hs |-> <<>>, verdict |-> "more"]
            ELSE IF s[k - 1].verdict # "more" THEN s[k - 1]
            ELSE NextRecord(buf, s[k - 1], k)
    IN  s

\* The verdict on a prefix of the stream: "incomplete", "invalid" or "done",
\* and the name of a ClientHello that is done.
Scan(buf) ==
    LET end == Turns(buf)[MaxRecords + 1]
        hello == ParseBody(SubSeq(end.hs, HsHeader + 1, Len(end.hs)))
    IN  IF Len(buf) > MaxPeek THEN [verdict |-> "invalid", name |-> NoName]
        ELSE IF end.verdict # "hello" THEN [verdict |-> end.verdict, name |-> NoName]
        ELSE [verdict |-> IF hello.ok THEN "done" ELSE "invalid", name |-> hello.name]

-----------------------------------------------------------------------------
(* What a conformant endpoint would make of the same bytes, said without   *)
(* the loop.                                                               *)

Entries(ext) == {ext.list[j] : j \in DOMAIN ext.list}

ServerNames(h) == {i \in DOMAIN h.exts : h.exts[i].type = "server_name"}

\* What the hello says is well formed and names this host and no other.
Names(h, name) ==
    /\ h.session <= 32 /\ h.ciphers > 0 /\ h.ciphers % 2 = 0 /\ h.compression > 0 /\ ~h.trailing
    /\ \A i \in DOMAIN h.exts : ~h.exts[i].cut /\ h.exts[i].type # "ech"
    /\ \E i \in DOMAIN h.exts :
          /\ ServerNames(h) = {i} /\ ~h.exts[i].trailing
          /\ \E e \in Entries(h.exts[i]) :
                h.exts[i].list = <<e>> /\ e.type = "host" /\ Lower(e.name) = name /\ IsDnsName(name)

\* Every name that is in the hello.
NamesIn(h) == {Lower(e.name) : e \in UNION {Entries(h.exts[i]) : i \in DOMAIN h.exts}}

\* A header is told by its first byte.
IsHeader(byte, layer, type, len) == byte[1] = layer /\ byte[2] = type /\ byte[3] = len

\* What is at the position k of a message that carries the hello h.
IsMessage(byte, h, k) ==
    /\ k = 1 => IsHeader(byte, "hs", "client_hello", Hellos[h].size)
    /\ k > HsHeader => byte = <<"body", h, k - HsHeader>>

\* The i-th record of the bytes carries the message of h from a position
\* to another; i - 1 records with their headers are before it.
IsRecord(bytes, i, h, from, to) ==
    /\ from < to /\ to - from <= MaxRecord
    /\ IsHeader(bytes[from + (i - 1) * RecHeader + 1], "rec", "handshake", to - from)
    /\ \A k \in (from + 1)..to : IsMessage(bytes[k + i * RecHeader], h, k)

\* The bytes are one ClientHello h in n records, of which the i-th ends at
\* the position ends[i] of the message.
InRecords(bytes, h, n, ends) ==
    LET size == HsHeader + Hellos[h].size IN
    /\ ends[0] = 0 /\ ends[n] = size /\ Len(bytes) = size + n * RecHeader
    /\ \A i \in 0..n : \A j \in 0..n : i < j => ends[i] < ends[j]
    /\ \A i \in 1..n : IsRecord(bytes, i, h, ends[i - 1], ends[i])

Encodes(bytes, h) ==
    \E n \in 1..MaxRecords : \E ends \in [0..n -> 0..(HsHeader + Hellos[h].size)] :
        InRecords(bytes, h, n, ends)

\* Such a message is not longer than the parser accepts.
Fits(h) == HsHeader + Hellos[h].size <= MaxPeek
=============================================================================
