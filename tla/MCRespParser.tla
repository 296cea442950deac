---------------------------- MODULE MCRespParser ----------------------------
(* Servers for RespParser: what they send, and in which sequences. *)
EXTENDS RespGrammar

Line(l)        == l \o <<CR, LF>>
Field(n, v)    == Line(<<n, COLON, SP, v>>)
Start(v, code) == Line(<<v, SP, code, SP, "reason">>)
Data(n)        == [i \in 1..n |-> "x"]
Chunk(n, data) == Line(<<n>>) \o Line(data)
LastChunk      == Line(<<"0">>) \o Line(<<>>)
Of(verdict, octets) == [verdict |-> verdict, octets |-> octets]

\* The responses a client of HTTP/1.1 meets.
Sized(n)  == Of("FIN", Start("HTTP/1.1", "200") \o Field("Content-Length", n) \o Line(<<>>) \o Data(Number(n)))
Full      == Of("FIN", Start("HTTP/1.1", "200") \o Field("Connection", "keep-alive")
                       \o Field("Content-Length", "3") \o Line(<<>>) \o Data(3))
NoContent == Of("FIN", Start("HTTP/1.1", "204") \o Field("Server", "kb") \o Line(<<>>))
Closing   == Of("CLOSE", Start("HTTP/1.1", "200") \o Field("Content-Length", "1")
                         \o Field("Connection", "close") \o Line(<<>>) \o Data(1))
Chunked(body) ==
  Of("FIN", Start("HTTP/1.1", "200") \o Field("Transfer-Encoding", "chunked")
            \o Field("Server", "kb") \o Line(<<>>) \o body \o LastChunk)
TwoChunks == Chunked(Chunk("2", Data(2)) \o Chunk("1", Data(1)))
Moved     == Of("REDIRECT", Start("HTTP/1.1", "301") \o Line(<<>>))
NotFound  == Of("CLIENT_ERR", Start("HTTP/1.1", "404") \o Field("Content-Length", "2") \o Line(<<>>) \o Data(2))
Failed    == Of("SERVER_ERR", Start("HTTP/1.1", "500") \o Line(<<>>))
Unlisted  == Of("NOT_SUPPORT", Start("HTTP/1.1", "401") \o Line(<<>>))

Pairs(first, second) == {<<a, b>> : a \in first, b \in second}
Ordinary == {Sized("0"), Full, NoContent, TwoChunks}
Stopping == {Closing, Moved, NotFound, Failed, Unlisted}

LongBodies       == <<Sized("20"), Chunked(Chunk("3", Data(3)) \o Chunk("20", Data(20))), Full>>
OrdinaryStreams  == {<<a, b, c>> : a \in Ordinary, b \in Ordinary, c \in Ordinary} \cup {LongBodies}
EndingStreams    == Pairs(Ordinary, Stopping)
AllStreams       == OrdinaryStreams \cup EndingStreams
NoStream         == {}

\* A chunk whose last octet is a newline, and another one behind it.
NewlineAtEnd     == {<<Chunked(Chunk("2", <<"x", LF>>) \o Chunk("3", <<"x", SP, "x">>)), Full>>}
\* A chunk size with a space behind it.
PaddedSize       == {<<Chunked(Line(<<"3", SP>>) \o Line(<<"20", "x", "x">>)), Full>>}
\* Transfer-Encoding as the last field of the head.
EncodingLast     == {<<Of("FIN", Start("HTTP/1.1", "200") \o Field("Server", "kb")
                                 \o Field("Transfer-Encoding", "chunked") \o Line(<<>>)
                                 \o Chunk("2", Data(2)) \o LastChunk)>>}
\* A long chunk, then a short one whose size may be cut by the full buffer.
LongThenShort    == {<<Chunked(Chunk("20", Data(20)) \o Chunk("3", <<"20", "x", "x">>)), Full>>}
HTTP10           == {<<Of("FIN", Start("HTTP/1.0", "200") \o Field("Content-Length", "1")
                                 \o Line(<<>>) \o Data(1))>>}

\* Of these, the ones RespParserProofs speaks of are in the grammar; what the
\* parser gets wrong is not, or is moved in the buffer.
ASSUME StreamsOfTheGrammar ==
  /\ \A s \in AllStreams : Readable(s) /\ ShortHeads(s)
  /\ \A s \in EndingStreams : Unmoved(s)
  /\ \E s \in OrdinaryStreams : Unmoved(s) /\ Len(OctetsOf(s)) > MAX_BUFF
  /\ \A s \in NewlineAtEnd \cup PaddedSize \cup EncodingLast \cup HTTP10 : ~Readable(s)
  /\ \A s \in LongThenShort : Readable(s) /\ ~Unmoved(s)

BothDrivers == {"blocking", "non_blocking"}
NonBlocking == {"non_blocking"}

\* 2^32 scaled down: a wrap of a count below 0 still shows.
ScaledU32 == 16
=============================================================================
