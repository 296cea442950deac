----------------------------- MODULE RespGrammar -----------------------------
(***************************************************************************)
(* Responses as a server writes them that keeps to HTTP/1.1 and to what kb *)
(* reads of it: a status line, header fields, an empty line, and a body    *)
(* whose end the head tells.  An offset into a response is the number of   *)
(* its octets in front of it.                                              *)
(***************************************************************************)
EXTENDS RespParser

Separators == {CR, LF, SP, COLON}

\* The octets of o between the offsets i and j are one line.
LineAt(o, i, j) == /\ i + 2 <= j /\ j <= Len(o)
                   /\ o[j - 1] = CR /\ o[j] = LF
                   /\ \A c \in i + 1 .. j - 2 : o[c] \notin {CR, LF}

\* "version SP code SP reason"; the reason may be empty.  kb takes a colon in
\* it for the end of the line.
StatusAt(o, j) == /\ 6 <= j /\ LineAt(o, 0, j)
                  /\ o[1] \notin Separators /\ o[2] = SP
                  /\ o[3] \notin Separators /\ o[4] = SP
                  /\ \A c \in 5 .. j - 2 : o[c] # COLON

\* "name: value"; the value is not empty.
FieldAt(o, i, j) == /\ i + 6 <= j /\ LineAt(o, i, j)
                    /\ o[i + 1] \notin Separators /\ o[i + 2] = COLON /\ o[i + 3] = SP

\* The ends of the lines of a head of h octets, but for the empty one, and the
\* offsets at which its fields begin.
LineEnds(o, h)   == {e \in 1 .. h - 2 : o[e] = LF}
Fields(o, h)     == LineEnds(o, h) \ {h - 2}
FieldsOf(o, h, n) == {d \in Fields(o, h) : o[d + 1] = n}

HeadAt(o, h) == /\ h \in 2 .. Len(o) /\ o[h - 1] = CR /\ o[h] = LF
                /\ h - 2 \in LineEnds(o, h)
                /\ \E e \in LineEnds(o, h) : StatusAt(o, e)
                /\ \A d \in Fields(o, h) : \E e \in LineEnds(o, h) : FieldAt(o, d, e)
                /\ \A n \in Names \ {"Server"} : \A d, e \in FieldsOf(o, h, n) : d = e

Closes(o, h) == \E d \in FieldsOf(o, h, "Connection") : o[d + 4] = "close"

\* Content-Length tells the length of the body.
SizedBody(o, h) == /\ FieldsOf(o, h, "Transfer-Encoding") = {}
                   /\ \E d \in FieldsOf(o, h, "Content-Length") : Len(o) = h + Number(o[d + 4])

\* A chunk of n octets behind offset b, the last of them no newline; and the
\* two lines that end the body.
ChunkAt(o, b, n) == /\ n > 0 /\ b + 5 + n <= Len(o) /\ Number(o[b + 1]) = n
                    /\ o[b + 3 + n] # LF /\ o[b + 4 + n] = CR /\ o[b + 5 + n] = LF
LastAt(o, b)     == /\ Len(o) = b + 5 /\ o[b + 1] \notin Separators /\ Number(o[b + 1]) = 0
                    /\ o[b + 4] = CR /\ o[b + 5] = LF

\* Chunks begin behind the offsets in B, and the body ends with the last.
SizeLines(o, h) == {b \in h .. Len(o) - 5 : o[b + 2] = CR /\ o[b + 3] = LF}
ChunksAt(o, B)  == \A b \in B : LastAt(o, b) \/ \E n \in 1 .. Len(o) : ChunkAt(o, b, n) /\ b + 5 + n \in B

\* Transfer-Encoding is noticed when a known field follows it.
ChunkedBody(o, h) ==
  /\ \E d \in FieldsOf(o, h, "Transfer-Encoding"), e \in Fields(o, h) :
       o[d + 4] = "chunked" /\ d < e /\ o[e + 1] \in Names
  /\ \E B \in SUBSET SizeLines(o, h) : h \in B /\ ChunksAt(o, B)

\* What r means to a client, its head being of h octets.
Means(r, h) ==
  LET o == r.octets
      code == o[3]
  IN  \/ code \notin Codes /\ r.verdict = "NOT_SUPPORT"
      \/ code = "301" /\ r.verdict = "REDIRECT"
      \/ code = "404" /\ r.verdict = "CLIENT_ERR"
      \/ code = "500" /\ r.verdict = "SERVER_ERR"
      \/ code = "204" /\ r.verdict = "FIN" /\ Len(o) = h /\ ~Closes(o, h)
      \/ /\ code = "200" /\ (SizedBody(o, h) \/ ChunkedBody(o, h))
         /\ r.verdict = IF Closes(o, h) THEN "CLOSE" ELSE "FIN"

ResponseAt(r, h) == HeadAt(r.octets, h) /\ r.octets[1] = "HTTP/1.1" /\ Means(r, h)
Readable(s) == \A k \in 1 .. Len(s) : \E h \in 1 .. Len(s[k].octets) : ResponseAt(s[k], h)

\* Compaction loses a chunk-size line that is cut by it.  None is where all up
\* to the end of a response in chunks fits the buffer.
Unmoved(s) ==
  \A k \in 1 .. Len(s) : \A h \in 1 .. Len(s[k].octets) :
    ResponseAt(s[k], h) /\ ChunkedBody(s[k].octets, h)
      => Len(OctetsOf(SubSeq(s, 1, k))) <= MAX_BUFF - CHUNK_SIZE

\* Heads that fit the buffer with what one recv() may add.
ShortHeads(s) == \A k \in 1 .. Len(s) : \A h \in 1 .. Len(s[k].octets) :
                   HeadAt(s[k].octets, h) => h <= MAX_BUFF - CHUNK_SIZE
=============================================================================
