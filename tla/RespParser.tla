----------------------------- MODULE RespParser -----------------------------
(***************************************************************************)
(* http_resp_parser and the two loops that feed it from a socket, octet by *)
(* octet, with the receive buffer and its compaction.                      *)
(*                                                                         *)
(* A name, a number, a version or a status code is one octet here; CR, LF, *)
(* SP, the colon and the octets of a body are themselves.  The limits on   *)
(* lengths are scaled with them.                                           *)
(***************************************************************************)
EXTENDS Integers, SequencesExt

CONSTANTS Streams,          \* what a server may send: sequences of responses
          Truncated,        \* those of them in the middle of which it may also close
          Drivers,          \* which of the two drivers run
          CHUNK_SIZE, RECV_BUFF_SCALE,
          U32_MOD           \* 2^32, the range of num_reqs

CR == "CR"
LF == "LF"
SP == "SP"
COLON == "COLON"

Digits  == {"0", "1", "2", "3", "20"}
Names   == {"Content-Length", "Transfer-Encoding", "Connection", "Server"}
Codes   == {"100", "200", "204", "301", "404", "500"}
Octets  == {CR, LF, SP, COLON, "HTTP/1.0", "HTTP/1.1", "reason", "X-Unknown", "chunked",
            "close", "keep-alive", "kb", "401", "x"} \cup Digits \cup Names \cup Codes

\* strtol and atoi: 0 for what is no number.
Number(o) == CASE o = "1" -> 1 [] o = "2" -> 2 [] o = "3" -> 3 [] o = "20" -> 20 [] OTHER -> 0

\* Lengths of a version and of a status code, in octets as counted here.
VERSION_LEN == 1
CODE_LEN    == 1
MAX_BUFF    == RECV_BUFF_SCALE * CHUNK_SIZE

\* A response: its octets and what a client should make of it, "FIN", "CLOSE"
\* (the last one of the connection) or the rcode of an answer it gives up on.
Responses == [octets : Seq(Octets) \ {<<>>},
              verdict : {"FIN", "CLOSE", "REDIRECT", "CLIENT_ERR", "SERVER_ERR", "NOT_SUPPORT"}]
ASSUME ParserAssumption ==
  /\ Streams \subseteq Seq(Responses)
  /\ Truncated \subseteq Streams /\ Drivers \subseteq {"blocking", "non_blocking"}
  /\ CHUNK_SIZE \in Nat \ {0} /\ RECV_BUFF_SCALE \in Nat \ {0}
  /\ U32_MOD \in Nat /\ \A s \in Streams : Len(s) \in 1..(U32_MOD - 1)

VARIABLES
  stream,    \* the responses the server sends
  size,      \* the octets of them it sends before it closes
  driver,    \* which driver is called
  rx,        \* those still to be received
  state_m,   \* the parsing state machine
  num_reqs, fin_resp, rcode     \* of the driver's call
given  == <<stream, size, driver>>
calls  == <<num_reqs, fin_resp, rcode>>
vars   == <<given, rx, state_m, calls>>

NON_BLOCK == driver = "non_blocking"

OctetsOf(s) == FlattenSeq([i \in DOMAIN s |-> s[i].octets])

NoHeader == [msg_hdr_len |-> 0, http_ver |-> 0, status_code |-> "none", curr_bit |-> "none",
             dirty |-> {}, idx |-> [n \in Names |-> 0], use_chunked |-> FALSE, is_close |-> FALSE]

\* create_parsing_state_machine, reset_parsing_state_machine.  length stands
\* for the union of content_length and chunked_size.
Fresh == [buff |-> <<>>, buf_idx |-> 0, last_fin_idx |-> 0, parsed_len |-> 0, p_state |-> "VER",
          resp |-> NoHeader, length |-> 0, use_content_length |-> FALSE, use_chunked |-> FALSE,
          curr_chunked_size |-> 0]

Init == /\ stream \in Streams
        /\ size \in IF stream \in Truncated THEN 0..Len(OctetsOf(stream)) ELSE {Len(OctetsOf(stream))}
        /\ driver \in Drivers
        /\ rx = SubSeq(OctetsOf(stream), 1, size)
        /\ state_m = Fresh
        /\ num_reqs = Len(stream) /\ fin_resp = 0 /\ rcode = "NONE"

-----------------------------------------------------------------------------
(* How a call of the parser ends, and what the driver does about it. *)

\* The driver goes on with the response that follows t's in the buffer.
NextResponse(t) == [t EXCEPT !.last_fin_idx = t.buf_idx, !.resp = NoHeader, !.p_state = "VER",
                             !.use_content_length = FALSE, !.use_chunked = FALSE, !.length = 0,
                             !.curr_chunked_size = 0, !.parsed_len = 0]

GoOn(t) == state_m' = t /\ UNCHANGED calls

\* RCODE_FIN, RCODE_NEXT_RESP.  The blocking driver never looks at num_reqs
\* or is_close here.
Finish(t) ==
  /\ num_reqs' = (num_reqs + U32_MOD - 1) % U32_MOD
  /\ fin_resp' = fin_resp + 1
  /\ rcode' = IF NON_BLOCK /\ t.resp.is_close THEN "CLOSE"
              ELSE IF NON_BLOCK /\ num_reqs' = 0 THEN "FIN"
              ELSE rcode
  /\ state_m' = IF rcode' = "NONE" THEN NextResponse(t) ELSE t

\* Every other rcode ends the call.
Return(t, rc) ==
  /\ rcode' = IF NON_BLOCK /\ rc = "NOT_SUPPORT" THEN "ERROR" ELSE rc
  /\ state_m' = IF rc # "NOT_SUPPORT" THEN t
                ELSE IF NON_BLOCK THEN [t EXCEPT !.parsed_len = 0]
                ELSE [t EXCEPT !.parsed_len = 0, !.buf_idx = t.last_fin_idx]
  /\ UNCHANGED <<num_reqs, fin_resp>>

-----------------------------------------------------------------------------
(* http_resp_parser: one action is one round of its loop. *)

m     == state_m
Avail == Len(m.buff) - m.buf_idx          \* data not looked at
Round == rcode = "NONE" /\ Avail > 0

\* The state after the octet under buf_idx has been taken for the header.
Taken == [m EXCEPT !.buf_idx = @ + 1, !.parsed_len = @ + 1, !.resp.msg_hdr_len = @ + 1]

\* buff+(buf_idx-parsed_len): the first octet of the element that ends in t.
FirstOf(t) == t.buff[t.buf_idx - t.parsed_len + 1]

InBody   == m.use_content_length /\ m.length > 0
InChunk  == m.use_chunked /\ m.length > 0
InHeader == Round /\ ~InBody /\ ~InChunk
Octet    == m.buff[m.buf_idx + 1]

\* Mutant: the octets passed over are not subtracted.
SkipAllKeepsLength ==
  /\ Round
  /\ InBody \/ InChunk
  /\ Avail < m.length
  /\ GoOn([m EXCEPT !.buf_idx = Len(m.buff), !.parsed_len = @ + 1])

\* All data there is belongs to a body or a chunk that goes on behind it.
SkipAll == /\ Round
           /\ InBody \/ InChunk
           /\ Avail < m.length
           /\ GoOn([m EXCEPT !.buf_idx = Len(m.buff), !.parsed_len = @ + 1,
                             !.length = @ - Avail,
                             !.curr_chunked_size = IF InChunk THEN @ + Avail ELSE @])

EndBody == /\ Round /\ InBody /\ Avail >= m.length
           /\ Finish([m EXCEPT !.buf_idx = @ + m.length, !.parsed_len = @ + 1, !.length = 0])

\* The last octet of a chunk is looked at once more, as if it were a header's:
\* a newline ends the line behind the chunk already.
EndChunk == /\ Round /\ InChunk /\ Avail >= m.length
            /\ LET end  == m.buf_idx + m.length
                   last == m.buff[end]
               IN  GoOn([m EXCEPT !.buf_idx = end, !.parsed_len = 0, !.length = 0,
                                  !.use_chunked = FALSE,
                                  !.p_state = IF last = LF THEN "CHUNKED" ELSE "NEXT_CHUNKED",
                                  !.curr_chunked_size = @ + m.length,
                                  !.resp.msg_hdr_len = @ + 1])

StatusLine  == {"VER", "CODE_OR_TOKEN", "REASON_OR_RESOURCE", "HEADER"}
HeaderField == {"FIELD_NAME", "FIELD_VALUE"}

\* next_http_state
Next_http_state(p, o) ==
  CASE p = "VER"                -> IF o = SP THEN "CODE_OR_TOKEN" ELSE p
    [] p = "CODE_OR_TOKEN"      -> IF o = SP THEN "REASON_OR_RESOURCE"
                                   ELSE IF o \in {CR, LF} THEN "HEADER" ELSE p
    [] p = "REASON_OR_RESOURCE" -> IF o = SP THEN p ELSE "HEADER"
    [] p = "HEADER"             -> IF o \in {CR, LF} THEN "FIELD_NAME" ELSE p
    [] p = "FIELD_NAME"         -> IF o = COLON THEN "FIELD_VALUE"
                                   ELSE IF o = CR THEN "MSG_BODY" ELSE p
    [] p = "FIELD_VALUE"        -> IF o = CR THEN "HEADER" ELSE p
    [] OTHER -> p

\* insert_new_header_field_value: a value of a known field is remembered by
\* its place.  Only then, and of the fields before it, is Transfer-Encoding
\* looked at.  A value follows ": ".
ValueOf(t, n) == LET i == t.resp.idx[n] + 2
                 IN  IF i \in 1..Len(t.buff) THEN t.buff[i] ELSE "x"
WithValue(t) ==
  IF t.resp.curr_bit \notin Names THEN t
  ELSE [t EXCEPT
          !.resp.use_chunked = @ \/ /\ "Transfer-Encoding" \in t.resp.dirty
                                    /\ t.resp.curr_bit # "Transfer-Encoding"
                                    /\ ValueOf(t, "Transfer-Encoding") = "chunked",
          !.resp.idx[t.resp.curr_bit] = t.buf_idx - t.parsed_len]

OnCR ==
  /\ InHeader /\ Octet = CR
  /\ LET t == Taken
         next == Next_http_state(t.p_state, CR)
     IN  IF t.p_state \in StatusLine /\ t.parsed_len > 1
           THEN GoOn([t EXCEPT !.p_state = next, !.parsed_len = 0])
         ELSE IF t.p_state \in HeaderField /\ t.parsed_len > 1
           THEN GoOn([WithValue(t) EXCEPT !.p_state = next, !.parsed_len = 0])
         ELSE IF t.p_state = "REASON_OR_RESOURCE" THEN GoOn([t EXCEPT !.p_state = next])
         ELSE GoOn(t)

\* Mutant: "Connection: close" is not looked for.
WithCloseNever(t) == t

\* The head is complete: what the response asks for.
WithClose(t) ==
  [t EXCEPT !.resp.is_close = "Connection" \in t.resp.dirty /\ ValueOf(t, "Connection") = "close"]

BodyFollows(t) ==
  IF "Transfer-Encoding" \in t.resp.dirty THEN GoOn([t EXCEPT !.p_state = "CHUNKED"])
  ELSE IF "Content-Length" \in t.resp.dirty
    THEN LET n == Number(ValueOf(t, "Content-Length"))
             u == [t EXCEPT !.use_content_length = TRUE, !.length = n]
         IN  IF n = 0 THEN Finish(u) ELSE GoOn(u)
  ELSE GoOn(t)

HeadEnds(t) ==
  CASE t.resp.status_code = "204" -> Finish(t)
    [] t.resp.status_code = "301" -> Return(t, "REDIRECT")
    [] t.resp.status_code = "404" -> Return(t, "CLIENT_ERR")
    [] t.resp.status_code = "500" -> Return(t, "SERVER_ERR")
    [] OTHER -> BodyFollows([WithClose(t) EXCEPT !.parsed_len = 0])

\* The line of a chunk's size ends.  An empty line ends the response; the
\* line "0" is passed over.
SizeEnds(t) ==
  LET n == Number(FirstOf(t))
      u == [t EXCEPT !.parsed_len = 0]
  IN  CASE n > 0 -> GoOn([u EXCEPT !.length = n, !.use_chunked = TRUE])
        [] n = 0 /\ t.parsed_len = 2 -> Finish(u)
        [] OTHER -> GoOn(u)

OnLF ==
  /\ InHeader /\ Octet = LF
  /\ LET t == Taken
         line(p) == GoOn([t EXCEPT !.p_state = p, !.parsed_len = 0])
     IN  CASE t.p_state = "HEADER"     -> line("FIELD_NAME")
           [] t.p_state = "FIELD_NAME" -> HeadEnds([t EXCEPT !.p_state = "MSG_BODY"])
           [] t.p_state = "CHUNKED" /\ t.resp.use_chunked -> SizeEnds(t)
           [] t.p_state \in {"CHUNKED_EXT", "NEXT_CHUNKED"} -> line("CHUNKED")
           [] OTHER -> line(t.p_state)

\* A space ends an element of the status line, or a chunk's size.
Space(t) ==
  LET u == [t EXCEPT !.p_state = Next_http_state(t.p_state, SP), !.parsed_len = 0]
  IN CASE t.p_state = "VER" ->
            IF t.parsed_len > VERSION_LEN + 1 THEN Return(t, "ERROR")
            ELSE IF FirstOf(t) = "HTTP/1.1" THEN GoOn([u EXCEPT !.resp.http_ver = 2])
            ELSE Return(t, "NOT_SUPPORT")
       [] t.p_state = "CODE_OR_TOKEN" ->
            IF t.parsed_len > CODE_LEN + 1 THEN Return(t, "ERROR")
            ELSE IF FirstOf(t) \in Codes THEN GoOn([u EXCEPT !.resp.status_code = FirstOf(t)])
            ELSE Return(t, "NOT_SUPPORT")
       [] t.p_state = "CHUNKED" /\ t.resp.use_chunked
          /\ (Number(FirstOf(t)) > 0 \/ t.parsed_len = 2) ->
            GoOn([t EXCEPT !.length = Number(FirstOf(t)), !.p_state = "CHUNKED_EXT"])
       [] OTHER -> GoOn(t)

OnSP == InHeader /\ Octet = SP /\ Space(Taken)

\* insert_new_header_field_name, check_res_header_field_name
WithName(t) == LET n == FirstOf(t)
               IN  [t EXCEPT !.resp.curr_bit = IF n \in Names THEN n ELSE "none",
                             !.resp.dirty = @ \cup ({n} \cap Names)]

OnColon ==
  /\ InHeader /\ Octet = COLON
  /\ LET t == Taken
     IN  IF t.p_state = "FIELD_NAME"
           THEN GoOn([WithName(t) EXCEPT !.p_state = "FIELD_VALUE", !.parsed_len = 0])
           ELSE Space([t EXCEPT !.p_state = Next_http_state(t.p_state, COLON)])

OnOther == InHeader /\ Octet \notin {CR, LF, SP, COLON} /\ GoOn(Taken)

-----------------------------------------------------------------------------
(* RCODE_POLL_DATA: the drivers fetch more. *)

NeedData == rcode = "NONE" /\ Avail = 0

\* Mutant: everything behind the last response is kept.
KeptLenAll(t) == Len(t.buff) - t.last_fin_idx

\* A full buffer: what is still needed moves to the front.  Of a body or of
\* chunks only the head is kept; the blocking driver keeps a chunk it is in.
KeptLen(t) ==
  LET between == t.length = 0 /\ t.curr_chunked_size > 0
  IN  CASE NON_BLOCK /\ (t.use_content_length \/ t.use_chunked \/ between) -> t.resp.msg_hdr_len
        [] ~NON_BLOCK /\ t.use_content_length -> 0
        [] ~NON_BLOCK /\ between -> t.resp.msg_hdr_len
        [] OTHER -> Len(t.buff) - t.last_fin_idx

\* Mutant: the fields stay where they were.
ShiftedIdxNot(t) == t.resp.idx

\* update_res_header_idx
ShiftedIdx(t) == [n \in Names |-> t.resp.idx[n] - (IF n \in t.resp.dirty THEN t.last_fin_idx ELSE 0)]

Compacted(t) ==
  IF Len(t.buff) <= MAX_BUFF - CHUNK_SIZE THEN t
  ELSE [t EXCEPT !.buff = SubSeq(t.buff, t.last_fin_idx + 1, t.last_fin_idx + KeptLen(t)),
                 !.buf_idx = KeptLen(t),
                 !.last_fin_idx = 0,
                 !.parsed_len = IF t.use_content_length \/ (NON_BLOCK /\ t.use_chunked) THEN 0 ELSE @,
                 !.resp.idx = ShiftedIdx(t)]

\* A recv() that returns -1 (non-blocking only) ends the call; the manager
\* comes back with the requests still to be answered, that is, here.
Recv == /\ NeedData /\ num_reqs # 0 /\ rx # <<>>
        /\ \E n \in 1..CHUNK_SIZE :
             /\ n <= Len(rx)
             /\ state_m' = [Compacted(m) EXCEPT !.buff = @ \o SubSeq(rx, 1, n)]
             /\ rx' = SubSeq(rx, n + 1, Len(rx))
        /\ UNCHANGED <<given, calls>>

RecvEof == /\ NeedData /\ num_reqs # 0 /\ rx = <<>>
           /\ state_m' = Fresh /\ rcode' = "CLOSE"
           /\ UNCHANGED <<given, rx, num_reqs, fin_resp>>

NothingExpected == /\ NeedData /\ num_reqs = 0
                   /\ rcode' = IF NON_BLOCK THEN "FIN" ELSE "POLL_DATA"
                   /\ UNCHANGED <<given, rx, state_m, num_reqs, fin_resp>>

http_resp_parser == /\ SkipAll \/ EndBody \/ EndChunk \/ OnCR \/ OnLF \/ OnSP \/ OnColon \/ OnOther
                    /\ UNCHANGED <<given, rx>>

Returned == rcode # "NONE" /\ UNCHANGED vars

Next == http_resp_parser \/ Recv \/ RecvEof \/ NothingExpected \/ Returned

Spec == Init /\ [][Next]_vars

-----------------------------------------------------------------------------
(* Properties. *)

StateM ==
  [buff : Seq(Octets), buf_idx : Nat, last_fin_idx : Nat, parsed_len : Nat,
   p_state : StatusLine \cup HeaderField
             \cup {"MSG_BODY", "CHUNKED", "CHUNKED_EXT", "NEXT_CHUNKED"},
   resp : [msg_hdr_len : Nat, http_ver : {0, 2}, status_code : Codes \cup {"none"},
           curr_bit : Names \cup {"none"}, dirty : SUBSET Names, idx : [Names -> Int],
           use_chunked : BOOLEAN, is_close : BOOLEAN],
   length : Nat, use_content_length : BOOLEAN, use_chunked : BOOLEAN, curr_chunked_size : Nat]

\* Types, and that the indices stay in order: last_fin_idx, buf_idx, data_size.
TypeOK ==
  /\ stream \in Streams /\ size \in Nat /\ driver \in Drivers /\ rx \in Seq(Octets)
  /\ state_m \in StateM
  /\ m.last_fin_idx <= m.buf_idx /\ m.buf_idx <= Len(m.buff)
  /\ num_reqs \in 0..(U32_MOD - 1) /\ fin_resp \in Nat
  /\ rcode \in {"NONE", "POLL_DATA", "FIN", "CLOSE", "REDIRECT", "CLIENT_ERR", "SERVER_ERR",
                "ERROR", "NOT_SUPPORT"}

LengthOf(k) == Len(OctetsOf(SubSeq(stream, 1, k)))
Consumed    == size - Len(rx) - Avail

\* Wherever recv() cuts the stream and whenever the buffer is compacted, the
\* parser ends a response exactly where the server ended it.
EndsWhereSent ==
  [][fin_resp' = fin_resp + 1 => Consumed' = LengthOf(fin_resp')]_vars

\* A driver comes back with what the server meant: everything answered, the
\* last response before a close, an answer to give up on, or, at the end of
\* the stream, with every response counted that came in complete.
Meant == [k \in 1..Len(stream) |->
            CASE ~NON_BLOCK /\ stream[k].verdict = "CLOSE"      -> "FIN"
              [] NON_BLOCK /\ stream[k].verdict = "NOT_SUPPORT" -> "ERROR"
              [] OTHER -> stream[k].verdict]
Verdict ==
  CASE rcode = "NONE" -> TRUE
    [] rcode \in {"FIN", "POLL_DATA"} -> fin_resp = Len(stream) /\ \A k \in 1..fin_resp : Meant[k] = "FIN"
    [] rcode = "CLOSE" ->
         \/ fin_resp > 0 /\ Meant[fin_resp] = "CLOSE"
         \/ fin_resp < Len(stream) /\ LengthOf(fin_resp) <= size /\ size < LengthOf(fin_resp + 1)
    [] OTHER -> fin_resp < Len(stream) /\ Meant[fin_resp + 1] = rcode

\* What a field's value was remembered by still leads to it when the head is
\* complete, although the buffer may have been compacted in between.
FieldsFound ==
  m.p_state \in StatusLine \cup HeaderField =>
    \A n \in m.resp.dirty :
      \/ m.p_state = "FIELD_VALUE" /\ n = m.resp.curr_bit
      \/ /\ m.resp.idx[n] - 1 > m.last_fin_idx
         /\ m.resp.idx[n] <= Len(m.buff)
         /\ m.buff[m.resp.idx[n] - 1] = n /\ m.buff[m.resp.idx[n]] = COLON

\* "save (recvbytes <= CHUNK_SIZE)": in the non-blocking driver, the buffer has
\* room for what recv() is asked for (http_new_state_machine.c:519).  The
\* blocking one keeps a long chunk whole (line 664) and has not.
BufferHasRoom == NON_BLOCK => Len(m.buff) <= MAX_BUFF
=============================================================================
