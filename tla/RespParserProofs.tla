-------------------------- MODULE RespParserProofs --------------------------
(***************************************************************************)
(* The response parser and its drivers, for every stream, every way recv() *)
(* cuts it and every size of the buffer: the indices into the buffer stay  *)
(* in order, and what a header field is remembered by leads to it across   *)
(* compactions.  Where the responses keep to RespGrammar, the parser is in *)
(* the stream where the grammar says, round by round (StreamInv): a driver *)
(* comes back with what the server meant, each response ends where it was  *)
(* ended, and the buffer has room for the next recv().                     *)
(***************************************************************************)
EXTENDS RespGrammar, CountingProofs

Rcodes == {"NONE", "POLL_DATA", "FIN", "CLOSE", "REDIRECT", "CLIENT_ERR", "SERVER_ERR", "ERROR",
           "NOT_SUPPORT"}

-----------------------------------------------------------------------------
(* The octets of a stream. *)

\* FlattenSeq is defined by a recursive function: one exists for every length.
Flattened(s, n, f) == f = [i \in 1..n |-> IF i = 1 THEN s[i] ELSE f[i - 1] \o s[i]]

LEMMA FlattenExists == ASSUME NEW s, NEW n \in Nat PROVE \E f : Flattened(s, n, f)
<1> DEFINE Bad == {k \in Nat : ~\E f : Flattened(s, k, f)}
<1> SUFFICES ASSUME Bad # {} PROVE FALSE
  OBVIOUS
<1>1. PICK k \in Bad : \A j \in Bad : k <= j
  <2>1. Bad \in SUBSET Nat
    OBVIOUS
  <2> HIDE DEF Bad
  <2> QED BY <2>1, Smallest
<1>2. CASE k = 0
  <2> DEFINE f == [i \in 1..0 |-> 0]
  <2>1. f = [i \in 1..0 |-> IF i = 1 THEN s[i] ELSE f[i - 1] \o s[i]]
    OBVIOUS
  <2>2. Flattened(s, 0, f)
    BY <2>1 DEF Flattened
  <2> QED BY <2>2, <1>2
<1>3. CASE k # 0
  <2>1. k - 1 \in Nat /\ k - 1 \notin Bad
    BY <1>1, <1>3
  <2>2. PICK f : Flattened(s, k - 1, f)
    BY <2>1
  <2> DEFINE g == [i \in 1..k |-> IF i = k THEN (IF i = 1 THEN s[i] ELSE f[i - 1] \o s[i]) ELSE f[i]]
             h == [i \in 1..k |-> IF i = 1 THEN s[i] ELSE g[i - 1] \o s[i]]
  <2>3. ASSUME NEW i \in 1..k PROVE g[i] = h[i]
    <3>1. CASE i = k
      BY <3>1
    <3>2. CASE i # k
      <4>1. i \in 1..(k - 1)
        BY <3>2
      <4>2. f[i] = IF i = 1 THEN s[i] ELSE f[i - 1] \o s[i]
        BY <4>1, <2>2 DEF Flattened
      <4>3. i # 1 => g[i - 1] = f[i - 1]
        BY <4>1
      <4> QED BY <4>1, <4>2, <4>3, <3>2
    <3> QED BY <3>1, <3>2
  <2>4. g = h
    BY <2>3
  <2>5. Flattened(s, k, g)
    BY <2>4 DEF Flattened
  <2> QED BY <2>5, <1>1
<1> QED BY <1>2, <1>3

LEMMA FlattenType == ASSUME NEW T, NEW s \in Seq(Seq(T)) PROVE FlattenSeq(s) \in Seq(T)
<1>1. CASE Len(s) = 0
  <2>1. FlattenSeq(s) = s
    BY <1>1, Zenon DEF FlattenSeq
  <2>2. s = <<>>
    BY <1>1
  <2> QED BY <2>1, <2>2
<1>2. CASE Len(s) # 0
  <2> DEFINE n == Len(s)
             F == CHOOSE f : Flattened(s, n, f)
  <2>1. FlattenSeq(s) = F[n]
    BY <1>2, Zenon DEF FlattenSeq, Flattened
  <2>2. n \in Nat \ {0} /\ \A i \in 1..n : s[i] \in Seq(T)
    BY <1>2
  <2>3. Flattened(s, n, F)
    BY <2>2, FlattenExists
  <2> DEFINE Bad == {i \in Nat : i \in 1..n /\ F[i] \notin Seq(T)}
  <2>4. CASE Bad = {}
    BY <2>1, <2>2, <2>4
  <2>5. CASE Bad # {}
    <3>1. PICK k \in Bad : \A j \in Bad : k <= j
      <4>1. Bad \in SUBSET Nat
        OBVIOUS
      <4> HIDE DEF Bad
      <4> QED BY <2>5, <4>1, Smallest
    <3> HIDE DEF F
    <3>2. k \in 1..n /\ F[k] = IF k = 1 THEN s[k] ELSE F[k - 1] \o s[k]
      BY <2>2, <2>3, <3>1 DEF Flattened
    <3>3. k # 1
      BY <2>2, <3>1, <3>2
    <3>4. k - 1 \in Nat /\ k - 1 \in 1..n /\ k - 1 \notin Bad
      BY <2>2, <3>1, <3>2, <3>3
    <3>5. F[k - 1] \in Seq(T)
      BY <3>4
    <3>6. s[k] \in Seq(T) /\ F[k] = F[k - 1] \o s[k]
      BY <2>2, <3>2, <3>3
    <3>7. F[k] \in Seq(T)
      BY <3>5, <3>6
    <3> QED BY <3>1, <3>7
  <2> QED BY <2>4, <2>5
<1> QED BY <1>1, <1>2

LEMMA StreamType == ASSUME NEW s \in Streams PROVE OctetsOf(s) \in Seq(Octets)
<1> DEFINE o == [i \in DOMAIN s |-> s[i].octets]
<1>1. s \in Seq(Responses)
  BY ParserAssumption
<1>2. o \in Seq(Seq(Octets))
  <2>1. DOMAIN s = 1..Len(s) /\ Len(s) \in Nat /\ \A i \in 1..Len(s) : s[i] \in Responses
    BY <1>1
  <2>2. \A i \in 1..Len(s) : s[i].octets \in Seq(Octets)
    BY <2>1 DEF Responses
  <2>3. o = [i \in 1..Len(s) |-> s[i].octets]
    BY <2>1
  <2> QED BY <2>1, <2>2, <2>3
<1>3. FlattenSeq(o) \in Seq(Octets)
  BY <1>2, FlattenType
<1> QED BY <1>3 DEF OctetsOf

-----------------------------------------------------------------------------
(* The invariant. *)

\* What resp is a member of.
Header == [msg_hdr_len : Nat, http_ver : {0, 2}, status_code : Codes \cup {"none"},
           curr_bit : Names \cup {"none"}, dirty : SUBSET Names, idx : [Names -> Int],
           use_chunked : BOOLEAN, is_close : BOOLEAN]

HeadStates == StatusLine \cup HeaderField
BodyStates == {"MSG_BODY", "CHUNKED", "CHUNKED_EXT", "NEXT_CHUNKED"}

Ordered(t) == t.last_fin_idx <= t.buf_idx /\ t.buf_idx <= Len(t.buff)

\* What is counted of a head is in the buffer, but for the blocking driver's
\* body of a given length, of which nothing is kept.
HeadCounted(t, nb) == \/ t.resp.msg_hdr_len <= t.buf_idx - t.last_fin_idx
                      \/ ~nb /\ t.use_content_length

\* A response has one kind of body, and none before its head is complete.
OneBody(t) == t.use_content_length => ~t.use_chunked /\ t.length > 0 /\ t.curr_chunked_size = 0
NoBody(t)  == t.length = 0 /\ ~t.use_content_length /\ ~t.use_chunked /\ t.curr_chunked_size = 0

Plain(t, nb) == /\ t \in StateM /\ Ordered(t) /\ HeadCounted(t, nb) /\ OneBody(t)
                /\ t.p_state \in HeadStates => NoBody(t)

\* In w, behind place a, a known field stands as "name: value", and a CR ends
\* it before the next LF.
Written(w, a) ==
  \A k \in a + 1 .. Len(w) : w[k] \in Names =>
    \A j \in k + 1 .. Len(w) :
      /\ j = k + 1 => w[j] = COLON
      /\ j = k + 2 => w[j] # LF
      /\ w[j] = LF => \E c \in k + 3 .. j - 1 : w[c] = CR

\* The name of field n, and the colon behind it at place c.
At(t, n, c) == /\ c - 1 > t.last_fin_idx /\ c <= Len(t.buff)
               /\ t.buff[c - 1] = n /\ t.buff[c] = COLON

Found(t) == \A n \in t.resp.dirty :
              \/ t.p_state = "FIELD_VALUE" /\ n = t.resp.curr_bit
              \/ At(t, n, t.resp.idx[n])

\* Within a name no colon, and within a value no CR but at its start has been
\* passed; a value that will be remembered began behind its name and colon.
InName(t)  == t.p_state = "FIELD_NAME" =>
                \A j \in t.buf_idx - t.parsed_len + 1 .. t.buf_idx : t.buff[j] # COLON
InValue(t) == t.p_state = "FIELD_VALUE" /\ t.resp.curr_bit \in Names =>
                /\ At(t, t.resp.curr_bit, t.buf_idx - t.parsed_len)
                /\ \A j \in t.buf_idx - t.parsed_len + 2 .. t.buf_idx : t.buff[j] # CR

Heading(t, r) ==
  /\ t.p_state \in StatusLine \ {"HEADER"} => t.resp.dirty = {}
  /\ t.parsed_len <= t.buf_idx - t.last_fin_idx
  /\ Written(t.buff \o r, t.last_fin_idx)
  /\ InName(t) /\ InValue(t) /\ Found(t)

Spell(t, r) == /\ Written(t.buff \o r, t.buf_idx)
               /\ t.p_state \in HeadStates => Heading(t, r)

\* Every stream spells the fields kb knows as it expects them.
Spelled == \A s \in Streams : Written(OctetsOf(s), 0)

\* While the driver runs, and when its call is over.
Good(t) == Plain(t, NON_BLOCK) /\ (Spelled => Spell(t, rx))
Over(t) == /\ t \in StateM /\ Ordered(t)
           /\ Spelled /\ t.p_state \in HeadStates => Found(t)

Typed == /\ stream \in Streams /\ size \in Nat /\ driver \in Drivers /\ rx \in Seq(Octets)
         /\ num_reqs \in 0..(U32_MOD - 1) /\ fin_resp \in Nat /\ rcode \in Rcodes

ParserInv == /\ Typed
             /\ IF rcode = "NONE" THEN Good(state_m) ELSE Over(state_m)

-----------------------------------------------------------------------------
(* What is written. *)

LEMMA WrittenMoved ==
  ASSUME NEW v \in Seq(Octets), NEW w \in Seq(Octets), NEW d \in Int, NEW a \in Nat, NEW b \in Nat,
         Written(w, a), a <= b + d, Len(v) <= Len(w) - d,
         \A j \in b + 1 .. Len(v) : v[j] = w[j + d]
  PROVE  Written(v, b)
<1> SUFFICES ASSUME NEW k \in b + 1 .. Len(v), v[k] \in Names, NEW j \in k + 1 .. Len(v)
             PROVE  /\ j = k + 1 => v[j] = COLON
                    /\ j = k + 2 => v[j] # LF
                    /\ v[j] = LF => \E c \in k + 3 .. j - 1 : v[c] = CR
  BY DEF Written
<1>1. Len(v) \in Nat /\ Len(w) \in Nat
  OBVIOUS
<1>2. k + d \in a + 1 .. Len(w) /\ j + d \in (k + d) + 1 .. Len(w)
  BY <1>1
<1>j. j \in b + 1 .. Len(v)
  BY <1>1
<1>3. v[k] = w[k + d] /\ v[j] = w[j + d]
  BY <1>j
<1>4. /\ j + d = (k + d) + 1 => w[j + d] = COLON
      /\ j + d = (k + d) + 2 => w[j + d] # LF
      /\ w[j + d] = LF => \E c \in (k + d) + 3 .. (j + d) - 1 : w[c] = CR
  BY <1>2, <1>3 DEF Written
<1>5. ASSUME v[j] = LF PROVE \E c \in k + 3 .. j - 1 : v[c] = CR
  <2>1. PICK c \in (k + d) + 3 .. (j + d) - 1 : w[c] = CR
    BY <1>3, <1>4, <1>5
  <2> DEFINE e == Len(v)
  <2>2. c \in Int /\ k \in Int /\ j \in Int /\ e \in Nat /\ b + 1 <= k /\ j <= e
        /\ k + d + 3 <= c /\ c <= j + d - 1
    BY <1>1
  <2> HIDE DEF e
  <2>3. c - d \in k + 3 .. j - 1 /\ c - d \in b + 1 .. e /\ (c - d) + d = c
    BY <2>2
  <2> USE DEF e
  <2> QED BY <2>1, <2>3
<1>6. j = k + 1 => v[j] = COLON
  BY <1>3, <1>4, <1>1
<1>7. j = k + 2 => v[j] # LF
  BY <1>3, <1>4, <1>1
<1> QED BY <1>5, <1>6, <1>7

LEMMA WrittenBehind ==
  ASSUME NEW w \in Seq(Octets), NEW a \in Nat, NEW b \in Nat, a <= b, Written(w, a)
  PROVE  Written(w, b)
<1>1. 0 \in Int /\ a <= b + 0 /\ Len(w) <= Len(w) - 0 /\ \A j \in b + 1 .. Len(w) : w[j] = w[j + 0]
  OBVIOUS
<1> QED BY <1>1, WrittenMoved

LEMMA WrittenPrefix ==
  ASSUME NEW w \in Seq(Octets), NEW n \in 0..Len(w), Written(w, 0)
  PROVE  Written(SubSeq(w, 1, n), 0)
<1> DEFINE v == SubSeq(w, 1, n)
<1>1. v \in Seq(Octets) /\ Len(v) = n /\ \A j \in 1..n : v[j] = w[j]
  BY SubSeqProperties
<1> HIDE DEF v
<1>2. \A j \in 0 + 1 .. Len(v) : v[j] = w[j + 0]
  BY <1>1
<1>3. 0 <= 0 + 0 /\ Len(v) <= Len(w) - 0 /\ 0 \in Int /\ 0 \in Nat
  BY <1>1
<1>4. Written(v, 0)
  BY <1>1, <1>2, <1>3, WrittenMoved
<1> QED BY <1>4 DEF v

-----------------------------------------------------------------------------
(* How a round of the parser ends. *)

LEMMA FreshState == Fresh \in StateM /\ Plain(Fresh, TRUE) /\ Plain(Fresh, FALSE)
<1>1. NoHeader \in Header
  BY DEF NoHeader, Header
<1>2. <<>> \in Seq(Octets) /\ Len(<<>>) = 0
  OBVIOUS
<1>3. Fresh \in StateM
  BY <1>1, <1>2 DEF Fresh, StateM, Header, StatusLine, HeaderField
<1>4. NoHeader.msg_hdr_len = 0
  BY DEF NoHeader
<1> QED BY <1>2, <1>3, <1>4 DEF Fresh, Plain, Ordered, HeadCounted, OneBody, NoBody

LEMMA NextPlain ==
  ASSUME NEW t \in StateM, Ordered(t), NEW nb
  PROVE  /\ Plain(NextResponse(t), nb)
         /\ \A r \in Seq(Octets) : Written(t.buff \o r, t.buf_idx) => Spell(NextResponse(t), r)
<1> DEFINE u == NextResponse(t)
<1>1. NoHeader \in Header
  BY DEF NoHeader, Header
<1>2. NoHeader.msg_hdr_len = 0 /\ NoHeader.dirty = {} /\ NoHeader.curr_bit = "none"
  BY DEF NoHeader
<1>3. /\ u \in StateM /\ u.buff = t.buff /\ u.buf_idx = t.buf_idx /\ u.last_fin_idx = t.buf_idx
      /\ u.resp = NoHeader /\ u.p_state = "VER" /\ u.parsed_len = 0
      /\ u.length = 0 /\ u.use_content_length = FALSE /\ u.use_chunked = FALSE /\ u.curr_chunked_size = 0
  BY <1>1 DEF NextResponse, StateM, Header, StatusLine
<1>4. t.buf_idx \in Nat /\ t.buff \in Seq(Octets) /\ t.buf_idx <= Len(t.buff)
  BY DEF StateM, Ordered
<1> HIDE DEF u
<1>5. Plain(u, nb)
  BY <1>2, <1>3, <1>4 DEF Plain, Ordered, HeadCounted, OneBody, NoBody
<1>6. ASSUME NEW r \in Seq(Octets), Written(t.buff \o r, t.buf_idx) PROVE Spell(u, r)
  <2>1. Written(u.buff \o r, u.last_fin_idx) /\ Written(u.buff \o r, u.buf_idx)
    BY <1>3, <1>6
  <2>2. u.parsed_len <= u.buf_idx - u.last_fin_idx
    BY <1>3, <1>4
  <2>3. u.resp.dirty = {} /\ u.p_state = "VER"
    BY <1>2, <1>3
  <2> QED BY <2>1, <2>2, <2>3 DEF Spell, Heading, InName, InValue, Found
<1> QED BY <1>5, <1>6 DEF u

LEMMA GoesOn ==
  ASSUME ParserInv, NEW t, Good(t), GoOn(t), rcode = "NONE", UNCHANGED <<given, rx>>
  PROVE  ParserInv'
BY DEF ParserInv, Typed, Good, NON_BLOCK, GoOn, calls, given

\* The response is complete: the next one follows, or the call is over.
LEMMA Finishes ==
  ASSUME ParserInv, NEW t \in StateM, Ordered(t), t.p_state \notin HeadStates,
         Spelled => Written(t.buff \o rx, t.buf_idx),
         Finish(t), rcode = "NONE", UNCHANGED <<given, rx>>
  PROVE  ParserInv'
<1>1. num_reqs' \in 0..(U32_MOD - 1) /\ fin_resp' \in Nat /\ rcode' \in Rcodes
  <2>1. U32_MOD \in Nat \ {0}
    BY ParserAssumption DEF ParserInv, Typed
  <2>2. num_reqs' \in 0..(U32_MOD - 1)
    BY <2>1, ParserAssumption DEF ParserInv, Typed, Finish
  <2> QED BY <2>2 DEF ParserInv, Typed, Finish, Rcodes
<1>2. Typed'
  BY <1>1 DEF ParserInv, Typed, given
<1>3. CASE rcode' = "NONE"
  <2>1. state_m' = NextResponse(t) /\ rx \in Seq(Octets)
    BY <1>3 DEF Finish, ParserInv, Typed
  <2>2. Plain(NextResponse(t), NON_BLOCK) /\ (Spelled => Spell(NextResponse(t), rx))
    BY <2>1, NextPlain
  <2>3. Good(state_m)'
    BY <2>1, <2>2 DEF Good, NON_BLOCK, given
  <2> QED BY <1>2, <1>3, <2>3 DEF ParserInv
<1>4. CASE rcode' # "NONE"
  <2>1. state_m' = t
    BY <1>4 DEF Finish
  <2>2. Over(state_m)'
    BY <2>1 DEF Over
  <2> QED BY <1>2, <1>4, <2>2 DEF ParserInv
<1> QED BY <1>3, <1>4

LEMMA Returns ==
  ASSUME ParserInv, NEW t \in StateM, Ordered(t), Spelled /\ t.p_state \in HeadStates => Found(t),
         NEW rc \in {"REDIRECT", "CLIENT_ERR", "SERVER_ERR", "ERROR", "NOT_SUPPORT"},
         Return(t, rc), UNCHANGED <<given, rx>>
  PROVE  ParserInv'
<1>1. rcode' \in Rcodes \ {"NONE"} /\ Typed'
  BY DEF ParserInv, Typed, given, Return, Rcodes
<1>2. Over(state_m')
  <2>1. CASE state_m' = t
    BY <2>1 DEF Over
  <2> DEFINE q == state_m'
  <2>2. CASE \/ q = [t EXCEPT !.parsed_len = 0]
             \/ q = [t EXCEPT !.parsed_len = 0, !.buf_idx = t.last_fin_idx]
    <3> DEFINE P(u) == /\ u \in StateM /\ u.buff = t.buff /\ u.last_fin_idx = t.last_fin_idx
                       /\ u.resp = t.resp /\ u.p_state = t.p_state
                       /\ u.buf_idx \in {t.buf_idx, t.last_fin_idx}
    <3>1. P([t EXCEPT !.parsed_len = 0])
      BY DEF StateM
    <3>2. P([t EXCEPT !.parsed_len = 0, !.buf_idx = t.last_fin_idx])
      BY DEF StateM
    <3>3. /\ q \in StateM /\ q.buff = t.buff /\ q.last_fin_idx = t.last_fin_idx
          /\ q.resp = t.resp /\ q.p_state = t.p_state /\ q.buf_idx \in {t.buf_idx, t.last_fin_idx}
      BY <2>2, <3>1, <3>2, Zenon
    <3> HIDE DEF q
    <3>4. Ordered(q)
      BY <3>3 DEF Ordered, StateM
    <3>5. Found(t) => Found(q)
      BY <3>3 DEF Found, At
    <3>6. Over(q)
      BY <3>3, <3>4, <3>5 DEF Over
    <3> QED BY <3>6 DEF q
  <2>3. \/ state_m' = t
        \/ state_m' = [t EXCEPT !.parsed_len = 0]
        \/ state_m' = [t EXCEPT !.parsed_len = 0, !.buf_idx = t.last_fin_idx]
    BY Zenon DEF Return
  <2> QED BY <2>1, <2>2, <2>3
<1>3. Over(state_m)'
  BY <1>2 DEF Over
<1> QED BY <1>1, <1>3 DEF ParserInv

-----------------------------------------------------------------------------
(* The beginning. *)

LEMMA ParserInit == Init => ParserInv
<1> SUFFICES ASSUME Init PROVE ParserInv
  OBVIOUS
<1> DEFINE o == OctetsOf(stream)
<1>1. o \in Seq(Octets) /\ Len(o) \in Nat
  BY StreamType DEF Init
<1>2. size \in 0..Len(o)
  BY <1>1 DEF Init
<1>3. rx = SubSeq(o, 1, size) /\ stream \in Streams /\ state_m = Fresh /\ rcode = "NONE"
  BY DEF Init
<1> HIDE DEF o
<1>4. rx \in Seq(Octets)
  BY <1>1, <1>2, <1>3
<1>5. num_reqs \in 0..(U32_MOD - 1)
  BY ParserAssumption DEF Init
<1>6. Typed
  BY <1>2, <1>4, <1>5 DEF Typed, Init, Rcodes
<1>7. Plain(state_m, NON_BLOCK)
  BY <1>3, FreshState DEF NON_BLOCK
<1>8. ASSUME Spelled PROVE Spell(state_m, rx)
  <2>1. Written(o, 0)
    BY <1>3, <1>8 DEF Spelled, o
  <2>2. Written(rx, 0)
    BY <1>1, <1>2, <1>3, <2>1, WrittenPrefix
  <2>3. state_m.buff \o rx = rx
    BY <1>3, <1>4 DEF Fresh
  <2>4. /\ state_m.buf_idx = 0 /\ state_m.last_fin_idx = 0 /\ state_m.parsed_len = 0
        /\ state_m.p_state = "VER" /\ state_m.resp.dirty = {}
    BY <1>3 DEF Fresh, NoHeader
  <2> QED BY <2>2, <2>3, <2>4 DEF Spell, Heading, InName, InValue, Found
<1> QED BY <1>3, <1>6, <1>7, <1>8 DEF ParserInv, Good

-----------------------------------------------------------------------------
(* Bodies and chunks. *)

LEMMA RoundFacts ==
  ASSUME ParserInv, Round
  PROVE  /\ rcode = "NONE" /\ Good(m) /\ m \in StateM /\ rx \in Seq(Octets)
         /\ Ordered(m) /\ HeadCounted(m, NON_BLOCK) /\ OneBody(m)
         /\ m.buf_idx \in Nat /\ Len(m.buff) \in Nat /\ m.buf_idx < Len(m.buff)
         /\ m.buff \in Seq(Octets) /\ m.buff \o rx \in Seq(Octets)
         /\ Spelled => \A b \in m.buf_idx .. Len(m.buff) : Written(m.buff \o rx, b)
<1>1. Good(m) /\ rcode = "NONE" /\ rx \in Seq(Octets)
  BY DEF ParserInv, Round, Typed, m
<1>2. m \in StateM
  BY <1>1 DEF Good, Plain
<1>3. m.buf_idx \in Nat /\ m.buff \in Seq(Octets) /\ Len(m.buff) \in Nat
  BY <1>2 DEF StateM
<1>4. m.buf_idx < Len(m.buff)
  BY <1>3 DEF Round, Avail
<1>5. m.buff \o rx \in Seq(Octets)
  BY <1>1, <1>3
<1>6. Spelled => \A b \in m.buf_idx .. Len(m.buff) : Written(m.buff \o rx, b)
  <2> SUFFICES ASSUME Spelled, NEW b \in m.buf_idx .. Len(m.buff) PROVE Written(m.buff \o rx, b)
    OBVIOUS
  <2> DEFINE w == m.buff \o rx
  <2>1. Written(w, m.buf_idx)
    BY <1>1 DEF Good, Spell
  <2>2. w \in Seq(Octets) /\ b \in Nat /\ m.buf_idx <= b
    BY <1>3, <1>5
  <2> HIDE DEF w
  <2>3. Written(w, b)
    BY <1>3, <2>1, <2>2, WrittenBehind
  <2> QED BY <2>3 DEF w
<1> QED BY <1>1, <1>2, <1>3, <1>4, <1>5, <1>6 DEF Good, Plain

LEMMA SkipAllInv ==
  ASSUME ParserInv, SkipAll, UNCHANGED <<given, rx>>
  PROVE  ParserInv'
<1> DEFINE q == [m EXCEPT !.buf_idx = Len(m.buff), !.parsed_len = @ + 1, !.length = @ - Avail,
                          !.curr_chunked_size = IF InChunk THEN @ + Avail ELSE @]
<1>0. Round /\ (InBody \/ InChunk) /\ Avail < m.length /\ GoOn(q)
  BY DEF SkipAll
<1>1. /\ rcode = "NONE" /\ Good(m) /\ m \in StateM /\ rx \in Seq(Octets)
      /\ Ordered(m) /\ HeadCounted(m, NON_BLOCK) /\ OneBody(m)
      /\ m.buf_idx \in Nat /\ Len(m.buff) \in Nat /\ m.buf_idx < Len(m.buff)
      /\ m.buff \in Seq(Octets) /\ m.buff \o rx \in Seq(Octets)
      /\ Spelled => \A b \in m.buf_idx .. Len(m.buff) : Written(m.buff \o rx, b)
  BY <1>0, RoundFacts
<1>2. /\ Avail \in Nat /\ m.length \in Nat /\ m.length - Avail \in Nat /\ m.length - Avail > 0
      /\ m.curr_chunked_size \in Nat /\ m.curr_chunked_size + Avail \in Nat /\ m.parsed_len + 1 \in Nat
  <2> DEFINE e == Len(m.buff)
             b == m.buf_idx
  <2>1. /\ m.length \in Nat /\ m.curr_chunked_size \in Nat /\ m.parsed_len \in Nat
    BY <1>1 DEF StateM
  <2>2. e \in Nat /\ b \in Nat /\ b < e /\ e - b < m.length /\ Avail = e - b
    BY <1>0, <1>1 DEF Avail
  <2> HIDE DEF e, b
  <2> QED BY <2>1, <2>2
<1> DEFINE c == IF InChunk THEN m.curr_chunked_size + Avail ELSE m.curr_chunked_size
<1>3. c \in Nat
  BY <1>2
<1>4. q = [m EXCEPT !.buf_idx = Len(m.buff), !.parsed_len = m.parsed_len + 1,
                    !.length = m.length - Avail, !.curr_chunked_size = c]
  OBVIOUS
<1> HIDE DEF c
<1>5. /\ q \in StateM /\ q.buff = m.buff /\ q.buf_idx = Len(m.buff) /\ q.last_fin_idx = m.last_fin_idx
      /\ q.resp = m.resp /\ q.p_state = m.p_state /\ q.length = m.length - Avail
      /\ q.use_content_length = m.use_content_length /\ q.use_chunked = m.use_chunked
      /\ q.curr_chunked_size = c
  BY <1>1, <1>2, <1>3, <1>4 DEF StateM
<1> HIDE DEF q
<1>6. m.p_state \notin HeadStates
  BY <1>0, <1>1 DEF Good, Plain, NoBody, InBody, InChunk
<1>7. OneBody(q)
  BY <1>1, <1>2, <1>5 DEF OneBody, c, InChunk
<1>8. Ordered(q) /\ HeadCounted(q, NON_BLOCK)
  BY <1>1, <1>5 DEF Ordered, HeadCounted, StateM
<1>9. Spelled => Written(q.buff \o rx, q.buf_idx)
  BY <1>1, <1>5
<1>10. Good(q)
  BY <1>5, <1>6, <1>7, <1>8, <1>9 DEF Good, Plain, Spell
<1> QED BY <1>0, <1>1, <1>10, GoesOn

LEMMA EndBodyInv ==
  ASSUME ParserInv, EndBody, UNCHANGED <<given, rx>>
  PROVE  ParserInv'
<1> DEFINE q == [m EXCEPT !.buf_idx = @ + m.length, !.parsed_len = @ + 1, !.length = 0]
<1>0. Round /\ InBody /\ Avail >= m.length /\ Finish(q)
  BY DEF EndBody
<1>1. /\ rcode = "NONE" /\ Good(m) /\ m \in StateM /\ rx \in Seq(Octets)
      /\ Ordered(m) /\ HeadCounted(m, NON_BLOCK) /\ OneBody(m)
      /\ m.buf_idx \in Nat /\ Len(m.buff) \in Nat /\ m.buf_idx < Len(m.buff)
      /\ m.buff \in Seq(Octets) /\ m.buff \o rx \in Seq(Octets)
      /\ Spelled => \A b \in m.buf_idx .. Len(m.buff) : Written(m.buff \o rx, b)
  BY <1>0, RoundFacts
<1>2. /\ m.length \in Nat /\ m.buf_idx + m.length \in Nat /\ m.buf_idx + m.length <= Len(m.buff)
      /\ m.parsed_len + 1 \in Nat
  BY <1>0, <1>1 DEF StateM, Avail
<1>5. /\ q \in StateM /\ q.buff = m.buff /\ q.buf_idx = m.buf_idx + m.length
      /\ q.last_fin_idx = m.last_fin_idx /\ q.p_state = m.p_state
  BY <1>1, <1>2 DEF StateM
<1> HIDE DEF q
<1>6. q.p_state \notin HeadStates
  BY <1>0, <1>1, <1>5 DEF Good, Plain, NoBody, InBody
<1>8. Ordered(q)
  <2>1. m.last_fin_idx <= m.buf_idx + m.length
    BY <1>1, <1>2 DEF Ordered, StateM
  <2> QED BY <1>2, <1>5, <2>1 DEF Ordered
<1>9. Spelled => Written(q.buff \o rx, q.buf_idx)
  BY <1>1, <1>2, <1>5
<1> QED BY <1>0, <1>1, <1>5, <1>6, <1>8, <1>9, Finishes

LEMMA EndChunkInv ==
  ASSUME ParserInv, EndChunk, UNCHANGED <<given, rx>>
  PROVE  ParserInv'
<1> DEFINE end == m.buf_idx + m.length
           p   == IF m.buff[end] = LF THEN "CHUNKED" ELSE "NEXT_CHUNKED"
           q   == [m EXCEPT !.buf_idx = end, !.parsed_len = 0, !.length = 0, !.use_chunked = FALSE,
                            !.p_state = p, !.curr_chunked_size = @ + m.length, !.resp.msg_hdr_len = @ + 1]
<1>0. Round /\ InChunk /\ Avail >= m.length /\ GoOn(q)
  BY DEF EndChunk
<1>1. /\ rcode = "NONE" /\ Good(m) /\ m \in StateM /\ rx \in Seq(Octets)
      /\ Ordered(m) /\ HeadCounted(m, NON_BLOCK) /\ OneBody(m)
      /\ m.buf_idx \in Nat /\ Len(m.buff) \in Nat /\ m.buf_idx < Len(m.buff)
      /\ m.buff \in Seq(Octets) /\ m.buff \o rx \in Seq(Octets)
      /\ Spelled => \A b \in m.buf_idx .. Len(m.buff) : Written(m.buff \o rx, b)
  BY <1>0, RoundFacts
<1>2. /\ m.length \in Nat /\ m.length > 0 /\ end \in Nat /\ end <= Len(m.buff)
      /\ m.curr_chunked_size + m.length \in Nat /\ m.resp.msg_hdr_len + 1 \in Nat
  <2> DEFINE e == Len(m.buff)
             b == m.buf_idx
  <2>1. /\ m.length \in Nat /\ m.curr_chunked_size \in Nat /\ m.resp.msg_hdr_len \in Nat
        /\ m.length > 0
    BY <1>0, <1>1 DEF StateM, InChunk
  <2>2. e \in Nat /\ b \in Nat /\ b < e /\ e - b >= m.length
    BY <1>0, <1>1 DEF Avail
  <2> HIDE DEF e, b
  <2>3. b + m.length \in Nat /\ b + m.length <= e
    BY <2>1, <2>2
  <2> QED BY <2>1, <2>3 DEF e, b
<1>3. p \in {"CHUNKED", "NEXT_CHUNKED"}
  OBVIOUS
<1> HIDE DEF end, p
<1>5. /\ q \in StateM /\ q.buff = m.buff /\ q.buf_idx = end
      /\ q.last_fin_idx = m.last_fin_idx /\ q.p_state = p /\ q.length = 0
      /\ q.resp.msg_hdr_len = m.resp.msg_hdr_len + 1
      /\ q.use_content_length = m.use_content_length /\ q.use_chunked = FALSE
  BY <1>1, <1>2, <1>3 DEF StateM
<1> HIDE DEF q
<1>6. q.p_state \notin HeadStates
  BY <1>3, <1>5 DEF HeadStates, StatusLine, HeaderField
<1>7. ~m.use_content_length
  BY <1>0, <1>1 DEF OneBody, InChunk
<1>a. /\ m.last_fin_idx \in Nat /\ m.resp.msg_hdr_len \in Nat /\ m.last_fin_idx <= m.buf_idx
      /\ m.resp.msg_hdr_len <= m.buf_idx - m.last_fin_idx
  BY <1>1, <1>7 DEF StateM, Ordered, HeadCounted
<1>b. /\ m.last_fin_idx <= end /\ end <= Len(m.buff)
      /\ m.resp.msg_hdr_len + 1 <= end - m.last_fin_idx
  <2> DEFINE h == m.resp.msg_hdr_len
             l == m.last_fin_idx
             b == m.buf_idx
             n == m.length
  <2>1. h \in Nat /\ l \in Nat /\ b \in Nat /\ n \in Nat /\ n > 0 /\ l <= b /\ h <= b - l
    BY <1>1, <1>2, <1>a
  <2> HIDE DEF h, l, b, n
  <2>2. l <= b + n /\ h + 1 <= (b + n) - l
    BY <2>1
  <2> QED BY <2>2, <1>2 DEF end, h, l, b, n
<1>8. Ordered(q) /\ HeadCounted(q, NON_BLOCK) /\ OneBody(q)
  BY <1>5, <1>7, <1>b DEF Ordered, HeadCounted, OneBody
<1>9. Spelled => Written(q.buff \o rx, q.buf_idx)
  BY <1>1, <1>2, <1>5 DEF end
<1>10. Good(q)
  BY <1>5, <1>6, <1>8, <1>9 DEF Good, Plain, Spell
<1>11. GoOn(q)
  BY <1>0
<1> QED BY <1>1, <1>10, <1>11, GoesOn

-----------------------------------------------------------------------------
(* The fields of a head, one octet later. *)

\* u is s with one more octet of the head looked at.
Stepped(s, u, r) ==
  /\ s \in StateM /\ u \in StateM /\ r \in Seq(Octets)
  /\ u.buff = s.buff /\ u.last_fin_idx = s.last_fin_idx /\ u.buf_idx = s.buf_idx + 1
  /\ s.last_fin_idx <= s.buf_idx /\ s.buf_idx + 1 <= Len(s.buff)
  /\ Heading(s, r)

SameFields(s, u) == u.resp.dirty = s.resp.dirty /\ u.resp.idx = s.resp.idx /\ u.resp.curr_bit = s.resp.curr_bit

LEMMA SteppedFacts ==
  ASSUME NEW s, NEW u, NEW r, Stepped(s, u, r)
  PROVE  /\ s.last_fin_idx \in Nat /\ s.buf_idx \in Nat /\ s.parsed_len \in Nat /\ u.parsed_len \in Nat
         /\ s.buff \in Seq(Octets) /\ Len(s.buff) \in Nat /\ s.buff \o r \in Seq(Octets)
         /\ s.resp.dirty \subseteq Names /\ s.resp.idx \in [Names -> Int]
         /\ s.parsed_len <= s.buf_idx - s.last_fin_idx
         /\ \A j \in 1..Len(s.buff) : (s.buff \o r)[j] = s.buff[j]
         /\ Len(s.buff \o r) = Len(s.buff) + Len(r) /\ Len(r) \in Nat
         /\ Written(s.buff \o r, s.last_fin_idx) /\ Written(u.buff \o r, u.last_fin_idx)
<1>1. s \in StateM /\ u \in StateM /\ r \in Seq(Octets)
  BY DEF Stepped
<1>2. /\ s.last_fin_idx \in Nat /\ s.buf_idx \in Nat /\ s.parsed_len \in Nat /\ u.parsed_len \in Nat
      /\ s.buff \in Seq(Octets) /\ s.resp.dirty \subseteq Names /\ s.resp.idx \in [Names -> Int]
  BY <1>1 DEF StateM
<1>3. /\ s.parsed_len <= s.buf_idx - s.last_fin_idx /\ Written(s.buff \o r, s.last_fin_idx)
      /\ u.buff = s.buff /\ u.last_fin_idx = s.last_fin_idx
  BY DEF Stepped, Heading
<1>4. Len(s.buff) \in Nat /\ Len(r) \in Nat /\ s.buff \o r \in Seq(Octets)
  BY <1>1, <1>2
<1>5. Len(s.buff \o r) = Len(s.buff) + Len(r) /\ \A j \in 1..Len(s.buff) : (s.buff \o r)[j] = s.buff[j]
  BY <1>1, <1>2, <1>4
<1> QED BY <1>1, <1>2, <1>3, <1>4, <1>5

\* Nothing but the place changes.
LEMMA Continues ==
  ASSUME NEW s, NEW u, NEW r, Stepped(s, u, r), SameFields(s, u),
         u.p_state = s.p_state, u.parsed_len = s.parsed_len + 1,
         s.p_state = "FIELD_NAME" => s.buff[s.buf_idx + 1] # COLON,
         s.p_state = "FIELD_VALUE" /\ s.buff[s.buf_idx + 1] = CR => s.parsed_len = 0
  PROVE  Heading(u, r)
<1> DEFINE b == s.buf_idx
           l == s.last_fin_idx
           p == s.parsed_len
<1>1. /\ l \in Nat /\ b \in Nat /\ p \in Nat /\ p <= b - l
      /\ Written(u.buff \o r, u.last_fin_idx)
  BY SteppedFacts
<1>2. /\ u.buff = s.buff /\ u.last_fin_idx = l /\ u.buf_idx = b + 1 /\ u.parsed_len = p + 1
      /\ Heading(s, r)
  BY DEF Stepped
<1> HIDE DEF b, l, p
<1>3. u.parsed_len <= u.buf_idx - u.last_fin_idx /\ u.buf_idx - u.parsed_len = b - p
  BY <1>1, <1>2
<1>4. InName(u)
  <2> SUFFICES ASSUME s.p_state = "FIELD_NAME", NEW j \in b - p + 1 .. b + 1 PROVE s.buff[j] # COLON
    BY <1>2, <1>3 DEF InName
  <2>1. j \in b - p + 1 .. b \/ j = b + 1
    BY <1>1
  <2>2. \A i \in b - p + 1 .. b : s.buff[i] # COLON
    BY <1>2 DEF Heading, InName, b, p
  <2> QED BY <2>1, <2>2 DEF b
<1>5. InValue(u)
  <2> SUFFICES ASSUME s.p_state = "FIELD_VALUE", s.resp.curr_bit \in Names
               PROVE  /\ At(u, s.resp.curr_bit, b - p)
                      /\ \A j \in b - p + 2 .. b + 1 : s.buff[j] # CR
    BY <1>2, <1>3 DEF InValue, SameFields
  <2>1. At(s, s.resp.curr_bit, b - p) /\ \A j \in b - p + 2 .. b : s.buff[j] # CR
    BY <1>2 DEF Heading, InValue, b, p
  <2>2. At(u, s.resp.curr_bit, b - p)
    BY <2>1, <1>2 DEF At, l
  <2>3. ASSUME NEW j \in b - p + 2 .. b + 1 PROVE s.buff[j] # CR
    <3>1. j \in b - p + 2 .. b \/ (j = b + 1 /\ p # 0)
      BY <1>1
    <3> QED BY <3>1, <2>1 DEF b, p
  <2> QED BY <2>2, <2>3
<1>6. Found(u)
  BY <1>2 DEF Heading, Found, SameFields, At, l
<1> QED BY <1>1, <1>2, <1>3, <1>4, <1>5, <1>6 DEF Heading, SameFields

\* An element of the status line or a line ends.
LEMMA Begins ==
  ASSUME NEW s, NEW u, NEW r, Stepped(s, u, r), SameFields(s, u),
         s.p_state # "FIELD_VALUE", u.p_state # "FIELD_VALUE",
         u.p_state \in StatusLine \ {"HEADER"} => s.p_state \in StatusLine \ {"HEADER"},
         u.parsed_len <= s.parsed_len + 1, u.p_state = "FIELD_NAME" => u.parsed_len = 0
  PROVE  Heading(u, r)
<1>1. /\ s.last_fin_idx \in Nat /\ s.buf_idx \in Nat /\ s.parsed_len \in Nat /\ u.parsed_len \in Nat
      /\ s.parsed_len <= s.buf_idx - s.last_fin_idx
      /\ Written(u.buff \o r, u.last_fin_idx)
  BY SteppedFacts
<1>2. /\ u.buff = s.buff /\ u.last_fin_idx = s.last_fin_idx /\ u.buf_idx = s.buf_idx + 1 /\ Heading(s, r)
  BY DEF Stepped
<1>3. u.parsed_len <= u.buf_idx - u.last_fin_idx
  BY <1>1, <1>2
<1>4. InName(u)
  BY <1>1, <1>2 DEF InName
<1>5. Found(u)
  BY <1>2 DEF Heading, Found, SameFields, At
<1> QED BY <1>1, <1>2, <1>3, <1>4, <1>5 DEF Heading, SameFields, InValue

\* A CR ends a value: the place of a known field's colon is remembered.
LEMMA ValueEnds ==
  ASSUME NEW s, NEW u, NEW r, Stepped(s, u, r), s.p_state = "FIELD_VALUE",
         u.p_state = "HEADER", u.parsed_len = 0, u.resp.dirty = s.resp.dirty,
         u.resp.idx = IF s.resp.curr_bit \in Names
                        THEN [s.resp.idx EXCEPT ![s.resp.curr_bit] = s.buf_idx - s.parsed_len]
                        ELSE s.resp.idx
  PROVE  Heading(u, r)
<1>1. /\ s.last_fin_idx \in Nat /\ s.buf_idx \in Nat /\ s.parsed_len \in Nat
      /\ s.resp.dirty \subseteq Names /\ s.resp.idx \in [Names -> Int]
      /\ s.parsed_len <= s.buf_idx - s.last_fin_idx
      /\ Written(u.buff \o r, u.last_fin_idx)
  BY SteppedFacts
<1>2. /\ u.buff = s.buff /\ u.last_fin_idx = s.last_fin_idx /\ u.buf_idx = s.buf_idx + 1 /\ Heading(s, r)
  BY DEF Stepped
<1>3. u.parsed_len <= u.buf_idx - u.last_fin_idx
  BY <1>1, <1>2
<1>4. Found(u)
  <2> SUFFICES ASSUME NEW n \in s.resp.dirty PROVE At(u, n, u.resp.idx[n])
    BY DEF Found
  <2>1. n = s.resp.curr_bit \/ At(s, n, s.resp.idx[n])
    BY <1>2 DEF Heading, Found
  <2>2. CASE n = s.resp.curr_bit
    <3>1. At(s, n, s.buf_idx - s.parsed_len)
      BY <1>1, <1>2, <2>2 DEF Heading, InValue
    <3>2. u.resp.idx[n] = s.buf_idx - s.parsed_len
      BY <1>1, <2>2
    <3> QED BY <1>2, <3>1, <3>2 DEF At
  <2>3. CASE n # s.resp.curr_bit
    <3>1. At(s, n, s.resp.idx[n]) /\ u.resp.idx[n] = s.resp.idx[n]
      BY <1>1, <2>1, <2>3
    <3> QED BY <1>2, <3>1 DEF At
  <2> QED BY <2>2, <2>3
<1> QED BY <1>1, <1>3, <1>4 DEF Heading, InName, InValue

\* A colon ends a name: if it is a known one, it stands right before it.
LEMMA NameEnds ==
  ASSUME NEW s, NEW u, NEW r, Stepped(s, u, r), s.p_state = "FIELD_NAME", s.buff[s.buf_idx + 1] = COLON,
         u.p_state = "FIELD_VALUE", u.parsed_len = 0, u.resp.idx = s.resp.idx,
         NEW n, n = s.buff[s.buf_idx - s.parsed_len + 1],
         u.resp.curr_bit = IF n \in Names THEN n ELSE "none",
         u.resp.dirty = s.resp.dirty \cup ({n} \cap Names)
  PROVE  Heading(u, r)
<1> DEFINE b == s.buf_idx
           l == s.last_fin_idx
           p == s.parsed_len
           w == s.buff \o r
<1>1. /\ l \in Nat /\ b \in Nat /\ p \in Nat /\ s.resp.dirty \subseteq Names
      /\ p <= b - l /\ b + 1 <= Len(s.buff) /\ Len(s.buff) \in Nat
      /\ Len(w) = Len(s.buff) + Len(r) /\ Len(r) \in Nat
      /\ \A j \in 1..Len(s.buff) : w[j] = s.buff[j]
      /\ Written(w, l) /\ Written(u.buff \o r, u.last_fin_idx)
  BY SteppedFacts DEF Stepped
<1>2. /\ u.buff = s.buff /\ u.last_fin_idx = l /\ u.buf_idx = b + 1 /\ Heading(s, r)
      /\ s.buff[b + 1] = COLON /\ n = s.buff[b - p + 1]
  BY DEF Stepped
<1>3. \A i \in b - p + 1 .. b : s.buff[i] # COLON
  BY <1>2 DEF Heading, InName
<1> HIDE DEF b, l, p, w
<1>4. u.parsed_len <= u.buf_idx - u.last_fin_idx /\ u.buf_idx - u.parsed_len = b + 1
  BY <1>1, <1>2
<1>5. ASSUME n \in Names PROVE p = 1
  <2>1. n # COLON
    BY <1>5 DEF Names, COLON
  <2>2. p # 0
    BY <1>1, <1>2, <2>1
  <2>3. ASSUME p >= 2 PROVE FALSE
    <3>1. b - p + 1 \in l + 1 .. Len(w) /\ b - p + 1 \in 1..Len(s.buff)
      BY <1>1, <2>3
    <3>2. (b - p + 1) + 1 \in (b - p + 1) + 1 .. Len(w) /\ (b - p + 1) + 1 \in 1..Len(s.buff)
      BY <1>1, <2>3
    <3>3. w[b - p + 1] \in Names
      BY <1>1, <1>2, <1>5, <3>1
    <3>4. w[(b - p + 1) + 1] = COLON
      BY <1>1, <3>1, <3>2, <3>3 DEF Written
    <3>5. s.buff[(b - p + 1) + 1] = COLON
      BY <1>1, <3>2, <3>4
    <3>6. (b - p + 1) + 1 \in b - p + 1 .. b
      BY <1>1, <2>3
    <3> QED BY <1>3, <3>5, <3>6
  <2> QED BY <1>1, <2>2, <2>3
<1>6. InValue(u)
  <2> SUFFICES ASSUME n \in Names PROVE At(u, n, b + 1) /\ \A j \in (b + 1) + 2 .. b + 1 : u.buff[j] # CR
    <3>1. "none" \notin Names
      BY DEF Names
    <3> QED BY <1>2, <1>4, <3>1 DEF InValue
  <2>1. p = 1
    BY <1>5
  <2>2. n = s.buff[b] /\ b > l
    BY <1>1, <1>2, <2>1
  <2>3. (b + 1) - 1 = b /\ b + 1 <= Len(s.buff)
    BY <1>1
  <2>4. At(u, n, b + 1)
    BY <1>2, <2>2, <2>3 DEF At
  <2> QED BY <1>1, <2>4
<1>7. Found(u)
  <2> SUFFICES ASSUME NEW k \in u.resp.dirty, k # u.resp.curr_bit PROVE At(u, k, u.resp.idx[k])
    BY DEF Found
  <2>1. k \in s.resp.dirty
    OBVIOUS
  <2>2. At(s, k, s.resp.idx[k])
    BY <1>2, <2>1 DEF Heading, Found
  <2> QED BY <1>2, <2>2 DEF At, l
<1> QED BY <1>1, <1>4, <1>6, <1>7 DEF Heading, InName, StatusLine

\* An LF within a value begins it anew: this happens to no field that counts.
LEMMA LineInValue ==
  ASSUME NEW s, NEW u, NEW r, Stepped(s, u, r), SameFields(s, u), s.p_state = "FIELD_VALUE",
         s.buff[s.buf_idx + 1] = LF, u.p_state = "FIELD_VALUE", u.parsed_len = 0
  PROVE  Heading(u, r)
<1> DEFINE b == s.buf_idx
           l == s.last_fin_idx
           p == s.parsed_len
           w == s.buff \o r
           n == s.resp.curr_bit
<1>1. /\ l \in Nat /\ b \in Nat /\ p \in Nat
      /\ p <= b - l /\ b + 1 <= Len(s.buff) /\ Len(s.buff) \in Nat
      /\ Len(w) = Len(s.buff) + Len(r) /\ Len(r) \in Nat
      /\ \A j \in 1..Len(s.buff) : w[j] = s.buff[j]
      /\ Written(w, l) /\ Written(u.buff \o r, u.last_fin_idx)
  BY SteppedFacts DEF Stepped
<1>2. /\ u.buff = s.buff /\ u.last_fin_idx = l /\ u.buf_idx = b + 1 /\ Heading(s, r)
      /\ s.buff[b + 1] = LF
  BY DEF Stepped
<1>3. n \in Names => /\ At(s, n, b - p) /\ \A j \in b - p + 2 .. b : s.buff[j] # CR
  BY <1>2 DEF Heading, InValue
<1>4. n \in Names => /\ b - p - 1 > l /\ b - p <= Len(s.buff)
                     /\ s.buff[b - p - 1] = n
  BY <1>3 DEF At, l
<1> HIDE DEF b, l, p, w
<1>5. ASSUME n \in Names PROVE FALSE
  <2> DEFINE k == b - p - 1
  <2>1. k \in l + 1 .. Len(w) /\ k \in 1..Len(s.buff) /\ b + 1 \in k + 1 .. Len(w) /\ b + 1 \in 1..Len(s.buff)
    BY <1>1, <1>4, <1>5
  <2>2. w[k] \in Names /\ w[b + 1] = LF
    BY <1>1, <1>2, <1>4, <1>5, <2>1
  <2>3. b + 1 # k + 2 /\ \E c \in k + 3 .. (b + 1) - 1 : w[c] = CR
    <3> HIDE DEF k
    <3> QED BY <1>1, <2>1, <2>2 DEF Written
  <2>4. PICK c \in k + 3 .. (b + 1) - 1 : w[c] = CR
    BY <2>3
  <2>5. c \in b - p + 2 .. b /\ c \in 1..Len(s.buff)
    <3> DEFINE e == Len(s.buff)
               f == Len(w)
    <3>1. l \in Nat /\ b \in Nat /\ p \in Nat /\ e \in Nat /\ b + 1 <= e
          /\ k = b - p - 1 /\ k \in l + 1 .. f /\ c \in k + 3 .. (b + 1) - 1
      BY <1>1, <2>1, <2>4
    <3> HIDE DEF e, f, k
    <3>2. c \in b - p + 2 .. b
      BY <3>1
    <3>3. c \in 1..e
      BY <3>1
    <3> QED BY <3>2, <3>3 DEF e
  <2> QED BY <1>1, <1>3, <1>5, <2>4, <2>5
<1>6. Found(u) /\ InValue(u)
  BY <1>2, <1>5 DEF Heading, Found, SameFields, At, InValue, l
<1>7. u.parsed_len <= u.buf_idx - u.last_fin_idx
  BY <1>1, <1>2
<1> QED BY <1>1, <1>6, <1>7 DEF Heading, InName, StatusLine

-----------------------------------------------------------------------------
(* The rounds within a head or between chunks. *)

PStates == HeadStates \cup BodyStates

\* t is a state with the octet under buf_idx taken for the header; Nearly: and
\* for the element it belongs to.
Placed(s, t) ==
  /\ t \in StateM /\ t.buff = s.buff /\ t.buf_idx = s.buf_idx + 1 /\ t.last_fin_idx = s.last_fin_idx
  /\ t.resp.msg_hdr_len = s.resp.msg_hdr_len + 1 /\ SameFields(s, t)
  /\ t.length = s.length /\ t.use_content_length = s.use_content_length
  /\ t.use_chunked = s.use_chunked /\ t.curr_chunked_size = s.curr_chunked_size
Nearly(s, t) == Placed(s, t) /\ t.parsed_len = s.parsed_len + 1

\* The next element begins, in state p.
Begun(t, p) == [t EXCEPT !.p_state = p, !.parsed_len = 0]

LEMMA Moved ==
  ASSUME NEW s, NEW t, Placed(s, t), NEW p \in PStates
  PROVE  LET u == Begun(t, p)
         IN  Placed(s, u) /\ u.p_state = p /\ u.parsed_len = 0 /\ u.resp = t.resp
<1> DEFINE u == Begun(t, p)
<1>1. t \in StateM
  BY DEF Placed
<1>2. /\ u \in StateM /\ u.p_state = p /\ u.parsed_len = 0 /\ u.resp = t.resp
      /\ u.buff = t.buff /\ u.buf_idx = t.buf_idx /\ u.last_fin_idx = t.last_fin_idx
      /\ u.length = t.length /\ u.use_content_length = t.use_content_length
      /\ u.use_chunked = t.use_chunked /\ u.curr_chunked_size = t.curr_chunked_size
  BY <1>1 DEF Begun, StateM, PStates, HeadStates, BodyStates
<1> HIDE DEF u
<1>3. Placed(s, u)
  BY <1>2 DEF Placed, SameFields
<1> QED BY <1>2, <1>3 DEF u

LEMMA MovedOn ==
  ASSUME NEW s, NEW t, Placed(s, t), NEW p \in PStates, NEW u, u = [t EXCEPT !.p_state = p]
  PROVE  Placed(s, u) /\ u.p_state = p /\ u.parsed_len = t.parsed_len /\ u.resp = t.resp
<1>1. t \in StateM
  BY DEF Placed
<1>2. /\ u \in StateM /\ u.p_state = p /\ u.parsed_len = t.parsed_len /\ u.resp = t.resp
      /\ u.buff = t.buff /\ u.buf_idx = t.buf_idx /\ u.last_fin_idx = t.last_fin_idx
      /\ u.length = t.length /\ u.use_content_length = t.use_content_length
      /\ u.use_chunked = t.use_chunked /\ u.curr_chunked_size = t.curr_chunked_size
  BY <1>1 DEF StateM, PStates, HeadStates, BodyStates
<1> QED BY <1>2 DEF Placed, SameFields

\* What kb notes of the status line is no field.
LEMMA Noted ==
  ASSUME NEW s, NEW t, Placed(s, t), NEW v \in {0, 2}, NEW c \in Codes, NEW u,
         u = [t EXCEPT !.resp.http_ver = v] \/ u = [t EXCEPT !.resp.status_code = c]
  PROVE  Placed(s, u) /\ u.p_state = t.p_state /\ u.parsed_len = t.parsed_len
<1> DEFINE g == [t.resp EXCEPT !.http_ver = v]
           h == [t.resp EXCEPT !.status_code = c]
<1>1. t \in StateM /\ t.resp \in Header
  BY DEF Placed, StateM, Header
<1>2. /\ g \in Header /\ g.msg_hdr_len = t.resp.msg_hdr_len /\ g.dirty = t.resp.dirty
      /\ g.idx = t.resp.idx /\ g.curr_bit = t.resp.curr_bit
  BY <1>1 DEF Header
<1>3. /\ h \in Header /\ h.msg_hdr_len = t.resp.msg_hdr_len /\ h.dirty = t.resp.dirty
      /\ h.idx = t.resp.idx /\ h.curr_bit = t.resp.curr_bit
  BY <1>1 DEF Header
<1>4. u = [t EXCEPT !.resp = g] \/ u = [t EXCEPT !.resp = h]
  BY <1>1
<1> HIDE DEF g, h
<1>5. PICK x \in {g, h} : u = [t EXCEPT !.resp = x]
  BY <1>4
<1>6. /\ x \in Header /\ x.msg_hdr_len = t.resp.msg_hdr_len /\ x.dirty = t.resp.dirty
      /\ x.idx = t.resp.idx /\ x.curr_bit = t.resp.curr_bit
  BY <1>2, <1>3
<1>7. /\ u \in StateM /\ u.p_state = t.p_state /\ u.parsed_len = t.parsed_len /\ u.resp = x
      /\ u.buff = t.buff /\ u.buf_idx = t.buf_idx /\ u.last_fin_idx = t.last_fin_idx
      /\ u.length = t.length /\ u.use_content_length = t.use_content_length
      /\ u.use_chunked = t.use_chunked /\ u.curr_chunked_size = t.curr_chunked_size
  BY <1>1, <1>5, <1>6 DEF StateM, Header
<1> QED BY <1>6, <1>7 DEF Placed, SameFields

LEMMA NumberType == ASSUME NEW o PROVE Number(o) \in Nat
  BY DEF Number

\* The octet is counted.
NearlyCounted(s) ==
  LET t == [s EXCEPT !.buf_idx = @ + 1, !.parsed_len = @ + 1, !.resp.msg_hdr_len = @ + 1]
  IN  Nearly(s, t) /\ t.p_state = s.p_state

LEMMA CountingTaken == ASSUME NEW s \in StateM PROVE NearlyCounted(s)
<1> DEFINE h == [s.resp EXCEPT !.msg_hdr_len = @ + 1]
           t == [s EXCEPT !.buf_idx = @ + 1, !.parsed_len = @ + 1, !.resp = h]
<1>1. s.resp \in Header /\ s.buf_idx + 1 \in Nat /\ s.parsed_len + 1 \in Nat /\ s.resp.msg_hdr_len + 1 \in Nat
  BY DEF StateM, Header
<1>2. /\ h \in Header /\ h.msg_hdr_len = s.resp.msg_hdr_len + 1 /\ h.dirty = s.resp.dirty
      /\ h.idx = s.resp.idx /\ h.curr_bit = s.resp.curr_bit
  BY <1>1 DEF Header
<1>3. [s EXCEPT !.buf_idx = @ + 1, !.parsed_len = @ + 1, !.resp.msg_hdr_len = @ + 1] = t
  BY DEF StateM
<1> HIDE DEF h
<1>4. /\ t \in StateM /\ t.buff = s.buff /\ t.buf_idx = s.buf_idx + 1 /\ t.last_fin_idx = s.last_fin_idx
      /\ t.resp = h /\ t.length = s.length /\ t.use_content_length = s.use_content_length
      /\ t.use_chunked = s.use_chunked /\ t.curr_chunked_size = s.curr_chunked_size
      /\ t.parsed_len = s.parsed_len + 1 /\ t.p_state = s.p_state
  BY <1>1, <1>2 DEF StateM, Header
<1> HIDE DEF t
<1> QED BY <1>2, <1>3, <1>4 DEF NearlyCounted, Nearly, Placed, SameFields

LEMMA TakenFacts ==
  ASSUME ParserInv, InHeader
  PROVE  /\ rcode = "NONE" /\ m \in StateM /\ rx \in Seq(Octets)
         /\ Nearly(m, Taken) /\ Taken.p_state = m.p_state
         /\ m.resp.msg_hdr_len <= m.buf_idx - m.last_fin_idx
         /\ m.last_fin_idx <= m.buf_idx /\ m.buf_idx + 1 <= Len(m.buff)
         /\ ~m.use_content_length /\ (m.p_state \in HeadStates => NoBody(m))
         /\ Spelled => Written(m.buff \o rx, m.buf_idx + 1)
         /\ Spelled /\ m.p_state \in HeadStates => Heading(m, rx)
<1>0. Round /\ ~InBody /\ ~InChunk
  BY DEF InHeader
<1>1. /\ rcode = "NONE" /\ Good(m) /\ m \in StateM /\ rx \in Seq(Octets)
      /\ Ordered(m) /\ HeadCounted(m, NON_BLOCK) /\ OneBody(m)
      /\ m.buf_idx \in Nat /\ Len(m.buff) \in Nat /\ m.buf_idx < Len(m.buff)
      /\ Spelled => \A b \in m.buf_idx .. Len(m.buff) : Written(m.buff \o rx, b)
  BY <1>0, RoundFacts
<1>2. ~m.use_content_length
  BY <1>0, <1>1 DEF OneBody, InBody
<1>3. m.resp.msg_hdr_len <= m.buf_idx - m.last_fin_idx /\ m.last_fin_idx <= m.buf_idx
  BY <1>1, <1>2 DEF HeadCounted, Ordered
<1>4. m.buf_idx + 1 \in m.buf_idx .. Len(m.buff)
  BY <1>1
<1>5. Nearly(m, Taken) /\ Taken.p_state = m.p_state
  <2>1. NearlyCounted(m)
    BY <1>1, CountingTaken
  <2> QED BY <2>1 DEF NearlyCounted, Taken
<1>6. (m.p_state \in HeadStates => NoBody(m)) /\ (Spelled /\ m.p_state \in HeadStates => Heading(m, rx))
  BY <1>1 DEF Good, Plain, Spell
<1> QED BY <1>1, <1>2, <1>3, <1>4, <1>5, <1>6

\* What is left to show of the state with which the loop goes on.
LEMMA RoundGoesOn ==
  ASSUME ParserInv, InHeader, UNCHANGED <<given, rx>>, NEW u \in StateM, GoOn(u),
         u.buff = m.buff, u.buf_idx = m.buf_idx + 1, u.last_fin_idx = m.last_fin_idx,
         u.resp.msg_hdr_len = m.resp.msg_hdr_len + 1, OneBody(u),
         u.p_state \in HeadStates => NoBody(u) /\ (Spelled => Heading(u, rx))
  PROVE  ParserInv'
<1>1. /\ rcode = "NONE" /\ m \in StateM
      /\ m.resp.msg_hdr_len <= m.buf_idx - m.last_fin_idx
      /\ m.last_fin_idx <= m.buf_idx /\ m.buf_idx + 1 <= Len(m.buff)
      /\ Spelled => Written(m.buff \o rx, m.buf_idx + 1)
  BY TakenFacts
<1>2. m.resp.msg_hdr_len \in Nat /\ m.buf_idx \in Nat /\ m.last_fin_idx \in Nat
  BY <1>1 DEF StateM
<1>3. Ordered(u) /\ HeadCounted(u, NON_BLOCK)
  BY <1>1, <1>2 DEF Ordered, HeadCounted
<1>4. Good(u)
  BY <1>1, <1>3 DEF Good, Plain, Spell
<1> QED BY <1>1, <1>4, GoesOn

\* The same when only p_state and parsed_len, or what no field depends on, differ from Taken.
LEMMA LineGoesOn ==
  ASSUME ParserInv, InHeader, UNCHANGED <<given, rx>>, NEW u, GoOn(u), Placed(m, u),
         \/ u.p_state \notin HeadStates
         \/ /\ u.p_state = m.p_state /\ u.parsed_len = m.parsed_len + 1
            /\ m.p_state = "FIELD_NAME" => Octet # COLON
            /\ m.p_state = "FIELD_VALUE" /\ Octet = CR => m.parsed_len = 0
         \/ /\ m.p_state \in HeadStates /\ m.p_state # "FIELD_VALUE" /\ u.p_state # "FIELD_VALUE"
            /\ u.p_state \in StatusLine \ {"HEADER"} => m.p_state \in StatusLine \ {"HEADER"}
            /\ u.parsed_len <= m.parsed_len + 1 /\ (u.p_state = "FIELD_NAME" => u.parsed_len = 0)
         \/ /\ m.p_state = "FIELD_VALUE" /\ Octet = LF
            /\ u.p_state = "FIELD_VALUE" /\ u.parsed_len = 0
  PROVE  ParserInv'
<1>1. /\ m \in StateM /\ rx \in Seq(Octets) /\ ~m.use_content_length
      /\ m.last_fin_idx <= m.buf_idx /\ m.buf_idx + 1 <= Len(m.buff)
      /\ (m.p_state \in HeadStates => NoBody(m))
      /\ Spelled /\ m.p_state \in HeadStates => Heading(m, rx)
  BY TakenFacts
<1>2. OneBody(u)
  BY <1>1 DEF OneBody, Placed
<1>3. ASSUME u.p_state \in HeadStates PROVE m.p_state \in HeadStates /\ NoBody(u)
  BY <1>1, <1>3 DEF NoBody, HeadStates, HeaderField, Placed
<1>4. ASSUME u.p_state \in HeadStates, Spelled PROVE Heading(u, rx)
  <2>1. Stepped(m, u, rx) /\ m.p_state \in HeadStates
    BY <1>1, <1>3, <1>4 DEF Stepped, Placed
  <2>2. CASE /\ u.p_state = m.p_state /\ u.parsed_len = m.parsed_len + 1
             /\ m.p_state = "FIELD_NAME" => Octet # COLON
             /\ m.p_state = "FIELD_VALUE" /\ Octet = CR => m.parsed_len = 0
    BY <2>1, <2>2, Continues DEF Octet, Placed
  <2>3. CASE /\ m.p_state # "FIELD_VALUE" /\ u.p_state # "FIELD_VALUE"
             /\ u.p_state \in StatusLine \ {"HEADER"} => m.p_state \in StatusLine \ {"HEADER"}
             /\ u.parsed_len <= m.parsed_len + 1 /\ (u.p_state = "FIELD_NAME" => u.parsed_len = 0)
    BY <2>1, <2>3, Begins DEF Placed
  <2>4. CASE /\ m.p_state = "FIELD_VALUE" /\ Octet = LF
             /\ u.p_state = "FIELD_VALUE" /\ u.parsed_len = 0
    BY <2>1, <2>4, LineInValue DEF Octet, Placed
  <2> QED BY <1>4, <2>2, <2>3, <2>4
<1> QED BY <1>2, <1>3, <1>4, RoundGoesOn DEF Placed

LEMMA OnOtherInv ==
  ASSUME ParserInv, OnOther, UNCHANGED <<given, rx>>
  PROVE  ParserInv'
<1>1. InHeader /\ GoOn(Taken) /\ Octet \notin {CR, LF, SP, COLON}
  BY DEF OnOther
<1>2. Nearly(m, Taken) /\ Taken.p_state = m.p_state
  BY <1>1, TakenFacts
<1> DEFINE u == Taken
<1>3. GoOn(u) /\ Nearly(m, u) /\ u.p_state = m.p_state
  BY <1>1, <1>2
<1> HIDE DEF u
<1> QED BY <1>1, <1>3, LineGoesOn DEF Nearly

\* A head with no field yet leaves nothing to be found.
LEMMA NoFieldYet ==
  ASSUME ParserInv, InHeader, NEW t, Placed(m, t), t.p_state = m.p_state,
         m.p_state \in {"VER", "CODE_OR_TOKEN"}
  PROVE  t \in StateM /\ Ordered(t) /\ (Spelled /\ t.p_state \in HeadStates => Found(t))
<1>1. /\ m \in StateM /\ m.last_fin_idx <= m.buf_idx /\ m.buf_idx + 1 <= Len(m.buff)
      /\ Spelled /\ m.p_state \in HeadStates => Heading(m, rx)
  BY TakenFacts
<1>2. t \in StateM /\ Ordered(t)
  <2>1. /\ t \in StateM /\ t.buff = m.buff /\ t.buf_idx = m.buf_idx + 1
        /\ t.last_fin_idx = m.last_fin_idx
    BY DEF Placed
  <2>2. m.last_fin_idx \in Nat /\ m.buf_idx \in Nat
    BY <1>1 DEF StateM
  <2>3. m.last_fin_idx <= m.buf_idx + 1
    BY <1>1, <2>2
  <2> QED BY <1>1, <2>1, <2>3 DEF Ordered
<1>3. m.p_state \in HeadStates /\ m.p_state \in StatusLine \ {"HEADER"}
  BY DEF HeadStates, StatusLine
<1>4. Spelled => t.resp.dirty = {}
  BY <1>1, <1>3 DEF Heading, Placed, SameFields
<1> QED BY <1>2, <1>4 DEF Found

LEMMA SpaceInv ==
  ASSUME ParserInv, InHeader, UNCHANGED <<given, rx>>, NEW t, Nearly(m, t),
         Octet \in {SP, COLON}, Octet = COLON => m.p_state # "FIELD_NAME",
         t.p_state = m.p_state \/ (m.p_state = "REASON_OR_RESOURCE" /\ t.p_state = "HEADER"),
         Space(t)
  PROVE  ParserInv'
<1>1. Placed(m, t) /\ t \in StateM /\ t.parsed_len = m.parsed_len + 1 /\ m \in StateM /\ ~m.use_content_length
  BY TakenFacts DEF Nearly, Placed
<1>2. CASE t.p_state = "VER"
  <2>1. m.p_state = "VER" /\ t.p_state = m.p_state
    BY <1>2
  <2> DEFINE p == Next_http_state(t.p_state, SP)
             u == [t EXCEPT !.p_state = p, !.parsed_len = 0]
  <2>2. p = "CODE_OR_TOKEN"
    BY <1>2 DEF Next_http_state, SP
  <2>3. Placed(m, u) /\ u.p_state = "CODE_OR_TOKEN" /\ u.parsed_len = 0
    <3>1. p \in PStates
      BY <2>2 DEF PStates, HeadStates, StatusLine
    <3>2. u = Begun(t, p)
      BY DEF Begun
    <3> HIDE DEF p, u
    <3> QED BY <1>1, <2>2, <3>1, <3>2, Moved
  <2> HIDE DEF u
  <2>4. CASE GoOn([u EXCEPT !.resp.http_ver = 2])
    <3> DEFINE x == [u EXCEPT !.resp.http_ver = 2]
    <3>1. "200" \in Codes /\ 2 \in {0, 2}
      BY DEF Codes
    <3>2. Placed(m, x) /\ x.p_state = "CODE_OR_TOKEN" /\ x.parsed_len = 0
      BY <2>3, <3>1, Noted
    <3>3. GoOn(x)
      BY <2>4
    <3> HIDE DEF x
    <3>4. /\ m.p_state \in HeadStates /\ m.p_state # "FIELD_VALUE" /\ x.p_state # "FIELD_VALUE"
          /\ x.p_state \in StatusLine \ {"HEADER"} => m.p_state \in StatusLine \ {"HEADER"}
          /\ x.parsed_len <= m.parsed_len + 1 /\ (x.p_state = "FIELD_NAME" => x.parsed_len = 0)
      BY <1>1, <2>1, <3>2 DEF HeadStates, StatusLine, StateM
    <3> QED BY <3>2, <3>3, <3>4, LineGoesOn
  <2>5. CASE Return(t, "ERROR") \/ Return(t, "NOT_SUPPORT")
    <3>1. PICK rc \in {"ERROR", "NOT_SUPPORT"} : Return(t, rc)
      BY <2>5
    <3>2. t \in StateM /\ Ordered(t) /\ (Spelled /\ t.p_state \in HeadStates => Found(t))
      BY <1>1, <2>1, NoFieldYet
    <3> QED BY <3>1, <3>2, Returns
  <2> QED BY <1>2, <2>4, <2>5 DEF Space, u
<1>3. CASE t.p_state = "CODE_OR_TOKEN"
  <2>1. m.p_state = "CODE_OR_TOKEN" /\ t.p_state = m.p_state
    BY <1>3
  <2> DEFINE p == Next_http_state(t.p_state, SP)
             u == [t EXCEPT !.p_state = p, !.parsed_len = 0]
  <2>2. p = "REASON_OR_RESOURCE"
    BY <1>3 DEF Next_http_state, SP
  <2>3. Placed(m, u) /\ u.p_state = "REASON_OR_RESOURCE" /\ u.parsed_len = 0
    <3>1. p \in PStates
      BY <2>2 DEF PStates, HeadStates, StatusLine
    <3>2. u = Begun(t, p)
      BY DEF Begun
    <3> HIDE DEF p, u
    <3> QED BY <1>1, <2>2, <3>1, <3>2, Moved
  <2> HIDE DEF u
  <2>4. CASE FirstOf(t) \in Codes /\ GoOn([u EXCEPT !.resp.status_code = FirstOf(t)])
    <3> DEFINE c == FirstOf(t)
               x == [u EXCEPT !.resp.status_code = c]
    <3>1. c \in Codes /\ 2 \in {0, 2}
      BY <2>4
    <3>3. GoOn(x)
      BY <2>4
    <3> HIDE DEF c
    <3>2. Placed(m, x) /\ x.p_state = "REASON_OR_RESOURCE" /\ x.parsed_len = 0
      BY <2>3, <3>1, Noted
    <3> HIDE DEF x
    <3>4. /\ m.p_state \in HeadStates /\ m.p_state # "FIELD_VALUE" /\ x.p_state # "FIELD_VALUE"
          /\ x.p_state \in StatusLine \ {"HEADER"} => m.p_state \in StatusLine \ {"HEADER"}
          /\ x.parsed_len <= m.parsed_len + 1 /\ (x.p_state = "FIELD_NAME" => x.parsed_len = 0)
      BY <1>1, <2>1, <3>2 DEF HeadStates, StatusLine, StateM
    <3> QED BY <3>2, <3>3, <3>4, LineGoesOn
  <2>5. CASE Return(t, "ERROR") \/ Return(t, "NOT_SUPPORT")
    <3>1. PICK rc \in {"ERROR", "NOT_SUPPORT"} : Return(t, rc)
      BY <2>5
    <3>2. t \in StateM /\ Ordered(t) /\ (Spelled /\ t.p_state \in HeadStates => Found(t))
      BY <1>1, <2>1, NoFieldYet
    <3> QED BY <3>1, <3>2, Returns
  <2> QED BY <1>3, <2>4, <2>5 DEF Space, u
<1>4. CASE t.p_state = "CHUNKED" /\ GoOn([t EXCEPT !.length = Number(FirstOf(t)), !.p_state = "CHUNKED_EXT"])
  <2> DEFINE n == Number(FirstOf(t))
             u == [t EXCEPT !.length = n, !.p_state = "CHUNKED_EXT"]
  <2>1. n \in Nat
    BY NumberType
  <2>2. GoOn(u)
    BY <1>4
  <2> HIDE DEF n
  <2>3. /\ u \in StateM /\ u.p_state = "CHUNKED_EXT" /\ u.resp = t.resp
        /\ u.buff = t.buff /\ u.buf_idx = t.buf_idx /\ u.last_fin_idx = t.last_fin_idx
        /\ u.use_content_length = t.use_content_length
    BY <1>1, <2>1 DEF StateM
  <2> HIDE DEF u
  <2>4. OneBody(u) /\ u.p_state \notin HeadStates
    BY <1>1, <2>3 DEF OneBody, Placed, HeadStates, StatusLine, HeaderField
  <2> QED BY <1>1, <2>2, <2>3, <2>4, RoundGoesOn DEF Placed
<1>5. CASE GoOn(t)
  <2>1. CASE t.p_state = m.p_state
    <3>1. Octet # CR
      BY DEF SP, COLON, CR
    <3>2. m.p_state = "FIELD_NAME" => Octet # COLON
      OBVIOUS
    <3> QED BY <1>1, <1>5, <2>1, <3>1, <3>2, LineGoesOn
  <2>2. CASE m.p_state = "REASON_OR_RESOURCE" /\ t.p_state = "HEADER"
    <3>1. /\ m.p_state \in HeadStates /\ m.p_state # "FIELD_VALUE" /\ t.p_state # "FIELD_VALUE"
          /\ t.p_state \notin StatusLine \ {"HEADER"}
          /\ t.parsed_len <= m.parsed_len + 1 /\ t.p_state # "FIELD_NAME"
      BY <1>1, <2>2 DEF HeadStates, StatusLine, StateM
    <3> QED BY <1>1, <1>5, <3>1, LineGoesOn
  <2> QED BY <2>1, <2>2
<1> QED BY <1>2, <1>3, <1>4, <1>5 DEF Space

LEMMA OnSPInv ==
  ASSUME ParserInv, OnSP, UNCHANGED <<given, rx>>
  PROVE  ParserInv'
<1> DEFINE t == Taken
<1>1. InHeader /\ Octet = SP /\ Space(t)
  BY DEF OnSP
<1>2. Nearly(m, t) /\ t.p_state = m.p_state
  BY <1>1, TakenFacts
<1>3. Octet \in {SP, COLON} /\ Octet # COLON
  BY <1>1 DEF SP, COLON
<1> HIDE DEF t
<1> QED BY <1>1, <1>2, <1>3, SpaceInv

LEMMA OnColonInv ==
  ASSUME ParserInv, OnColon, UNCHANGED <<given, rx>>
  PROVE  ParserInv'
<1> DEFINE t == Taken
<1>1. InHeader /\ Octet = COLON
  BY DEF OnColon
<1>2. Nearly(m, t) /\ t.p_state = m.p_state /\ Placed(m, t) /\ t \in StateM
  BY <1>1, TakenFacts DEF Nearly, Placed
<1>3. m \in StateM
  BY <1>1, TakenFacts
<1>4. CASE t.p_state = "FIELD_NAME"
  <2> DEFINE n == FirstOf(t)
             c == IF n \in Names THEN n ELSE "none"
             h == [t.resp EXCEPT !.curr_bit = c, !.dirty = @ \cup ({n} \cap Names)]
             u == [t EXCEPT !.resp = h, !.p_state = "FIELD_VALUE", !.parsed_len = 0]
  <2>1. GoOn(u)
    <3>1. GoOn([WithName(t) EXCEPT !.p_state = "FIELD_VALUE", !.parsed_len = 0])
      BY <1>4 DEF OnColon
    <3>2. [WithName(t) EXCEPT !.p_state = "FIELD_VALUE", !.parsed_len = 0] = u
      BY <1>2 DEF WithName, StateM
    <3> QED BY <3>1, <3>2
  <2>2. n = m.buff[m.buf_idx - m.parsed_len + 1]
    <3>1. t.buf_idx - t.parsed_len + 1 = m.buf_idx - m.parsed_len + 1
      BY <1>2, <1>3 DEF Nearly, Placed, StateM
    <3> QED BY <1>2, <3>1 DEF FirstOf, Placed
  <2> HIDE DEF n
  <2>3. t.resp \in Header /\ c \in Names \cup {"none"}
    BY <1>2 DEF StateM, Header
  <2>4. /\ h \in Header /\ h.msg_hdr_len = t.resp.msg_hdr_len /\ h.curr_bit = c
        /\ h.dirty = t.resp.dirty \cup ({n} \cap Names) /\ h.idx = t.resp.idx
    BY <2>3 DEF Header
  <2> HIDE DEF h
  <2>5. /\ u \in StateM /\ u.p_state = "FIELD_VALUE" /\ u.parsed_len = 0 /\ u.resp = h
        /\ u.buff = t.buff /\ u.buf_idx = t.buf_idx /\ u.last_fin_idx = t.last_fin_idx
        /\ u.length = t.length /\ u.use_content_length = t.use_content_length
        /\ u.use_chunked = t.use_chunked /\ u.curr_chunked_size = t.curr_chunked_size
    BY <1>2, <2>4 DEF StateM, Header, HeaderField
  <2> HIDE DEF u
  <2>6. m.p_state = "FIELD_NAME" /\ m.p_state \in HeadStates
    BY <1>2, <1>4 DEF HeadStates, HeaderField
  <2>7. OneBody(u) /\ NoBody(u)
    BY <1>1, <1>2, <2>5, <2>6, TakenFacts DEF OneBody, NoBody, Placed
  <2>8. ASSUME Spelled PROVE Heading(u, rx)
    <3>1. Stepped(m, u, rx)
      BY <1>1, <1>2, <2>5, <2>6, <2>8, TakenFacts DEF Stepped, Placed
    <3>2. /\ u.resp.idx = m.resp.idx /\ u.resp.curr_bit = c
          /\ u.resp.dirty = m.resp.dirty \cup ({n} \cap Names)
      BY <1>2, <2>4, <2>5 DEF Placed, SameFields
    <3> QED BY <1>1, <2>2, <2>5, <2>6, <3>1, <3>2, NameEnds DEF Octet
  <2> QED BY <1>1, <1>2, <2>1, <2>4, <2>5, <2>7, <2>8, RoundGoesOn DEF Placed
<1>5. CASE t.p_state # "FIELD_NAME"
  <2> DEFINE p == Next_http_state(t.p_state, COLON)
             u == [t EXCEPT !.p_state = p]
  <2>1. Space(u)
    BY <1>5 DEF OnColon
  <2>2. p = m.p_state \/ (m.p_state = "REASON_OR_RESOURCE" /\ p = "HEADER")
    BY <1>2, <1>5 DEF Next_http_state, SP, CR, LF, COLON
  <2>3. p \in PStates
    BY <1>2, <1>3, <2>2 DEF StateM, PStates, HeadStates, BodyStates, StatusLine
  <2> HIDE DEF p
  <2>4. Placed(m, u) /\ u.p_state = p /\ u.parsed_len = t.parsed_len
    BY <1>2, <2>3, MovedOn
  <2> HIDE DEF u
  <2>5. Nearly(m, u)
    BY <1>2, <2>4 DEF Nearly
  <2> QED BY <1>1, <1>2, <1>5, <2>1, <2>2, <2>4, <2>5, SpaceInv
<1> QED BY <1>4, <1>5

LEMMA ValueNoted ==
  ASSUME NEW t \in StateM
  PROVE  LET v == WithValue(t)
         IN  /\ v \in StateM /\ v.buff = t.buff /\ v.buf_idx = t.buf_idx
             /\ v.last_fin_idx = t.last_fin_idx /\ v.length = t.length
             /\ v.use_content_length = t.use_content_length /\ v.use_chunked = t.use_chunked
             /\ v.curr_chunked_size = t.curr_chunked_size /\ v.resp.msg_hdr_len = t.resp.msg_hdr_len
             /\ v.resp.dirty = t.resp.dirty
             /\ v.resp.idx = IF t.resp.curr_bit \in Names
                               THEN [t.resp.idx EXCEPT ![t.resp.curr_bit] = t.buf_idx - t.parsed_len]
                               ELSE t.resp.idx
<1> DEFINE c == t.resp.curr_bit
           k == \/ t.resp.use_chunked
                \/ /\ "Transfer-Encoding" \in t.resp.dirty
                   /\ c # "Transfer-Encoding"
                   /\ ValueOf(t, "Transfer-Encoding") = "chunked"
           i == [t.resp.idx EXCEPT ![c] = t.buf_idx - t.parsed_len]
           h == [t.resp EXCEPT !.use_chunked = k, !.idx = i]
           v == [t EXCEPT !.resp = h]
<1>1. CASE c \notin Names
  BY <1>1 DEF WithValue
<1>2. CASE c \in Names
  <2>1. t.resp \in Header /\ t.buf_idx - t.parsed_len \in Int /\ t.resp.idx \in [Names -> Int]
    BY DEF StateM, Header
  <2>2. i \in [Names -> Int]
    BY <2>1, <1>2
  <2>3. k \in BOOLEAN
    BY <2>1 DEF Header
  <2>4. WithValue(t) = v
    BY <1>2, <2>1 DEF WithValue, StateM, Header
  <2> HIDE DEF i, k
  <2>5. /\ h \in Header /\ h.msg_hdr_len = t.resp.msg_hdr_len /\ h.dirty = t.resp.dirty /\ h.idx = i
    BY <2>1, <2>2, <2>3 DEF Header
  <2> HIDE DEF h
  <2>6. /\ v \in StateM /\ v.buff = t.buff /\ v.buf_idx = t.buf_idx /\ v.resp = h
        /\ v.last_fin_idx = t.last_fin_idx /\ v.length = t.length
        /\ v.use_content_length = t.use_content_length /\ v.use_chunked = t.use_chunked
        /\ v.curr_chunked_size = t.curr_chunked_size
    BY <2>5 DEF StateM, Header
  <2> HIDE DEF v
  <2> QED BY <1>2, <2>4, <2>5, <2>6 DEF i
<1> QED BY <1>1, <1>2

LEMMA OnCRInv ==
  ASSUME ParserInv, OnCR, UNCHANGED <<given, rx>>
  PROVE  ParserInv'
<1> DEFINE t    == Taken
           next == Next_http_state(t.p_state, CR)
<1>1. /\ InHeader /\ Octet = CR
      /\ IF t.p_state \in StatusLine /\ t.parsed_len > 1 THEN GoOn(Begun(t, next))
         ELSE IF t.p_state \in HeaderField /\ t.parsed_len > 1 THEN GoOn(Begun(WithValue(t), next))
         ELSE IF t.p_state = "REASON_OR_RESOURCE" THEN GoOn([t EXCEPT !.p_state = next])
         ELSE GoOn(t)
  BY Zenon DEF OnCR, Begun
<1>2. Nearly(m, t) /\ t.p_state = m.p_state /\ Placed(m, t) /\ t \in StateM /\ t.parsed_len = m.parsed_len + 1
  BY <1>1, TakenFacts DEF Nearly, Placed
<1>3. m \in StateM /\ m.parsed_len \in Nat /\ m.p_state \in PStates
  BY <1>1, TakenFacts DEF StateM, PStates, HeadStates, BodyStates
<1> HIDE DEF t
<1>4. /\ t.p_state = "VER" => next = "VER"
      /\ t.p_state = "CODE_OR_TOKEN" => next = "HEADER"
      /\ t.p_state = "REASON_OR_RESOURCE" => next = "HEADER"
      /\ t.p_state = "HEADER" => next = "FIELD_NAME"
      /\ t.p_state = "FIELD_NAME" => next = "MSG_BODY"
      /\ t.p_state = "FIELD_VALUE" => next = "HEADER"
  BY DEF Next_http_state, SP, CR, LF, COLON
<1>5. CASE t.p_state \in StatusLine /\ t.parsed_len > 1
  <2> DEFINE u == Begun(t, next)
  <2>1. next \in {"VER", "HEADER", "FIELD_NAME"} /\ next \in PStates
    BY <1>4, <1>5 DEF PStates, HeadStates, StatusLine, HeaderField
  <2>2. next \in StatusLine \ {"HEADER"} => m.p_state \in StatusLine \ {"HEADER"}
    BY <1>2, <1>4, <1>5 DEF StatusLine
  <2>3. GoOn(u)
    BY <1>1, <1>5
  <2> HIDE DEF next
  <2>4. Placed(m, u) /\ u.p_state = next /\ u.parsed_len = 0
    BY <1>2, <2>1, Moved
  <2> HIDE DEF u
  <2>5. /\ m.p_state \in HeadStates /\ m.p_state # "FIELD_VALUE" /\ u.p_state # "FIELD_VALUE"
        /\ u.p_state \in StatusLine \ {"HEADER"} => m.p_state \in StatusLine \ {"HEADER"}
        /\ u.parsed_len <= m.parsed_len + 1 /\ (u.p_state = "FIELD_NAME" => u.parsed_len = 0)
    BY <1>2, <1>3, <1>5, <2>1, <2>2, <2>4 DEF HeadStates, StatusLine
  <2> QED BY <1>1, <2>3, <2>4, <2>5, LineGoesOn
<1>6. CASE t.p_state \in HeaderField /\ t.parsed_len > 1
  <2> DEFINE v == WithValue(t)
             u == Begun(v, next)
  <2>1. next \in {"MSG_BODY", "HEADER"}
    BY <1>4, <1>6 DEF HeaderField
  <2>2. GoOn(u)
    BY <1>1, <1>6 DEF HeaderField, StatusLine
  <2>3. /\ v \in StateM /\ v.buff = t.buff /\ v.buf_idx = t.buf_idx
        /\ v.last_fin_idx = t.last_fin_idx /\ v.length = t.length
        /\ v.use_content_length = t.use_content_length /\ v.use_chunked = t.use_chunked
        /\ v.curr_chunked_size = t.curr_chunked_size /\ v.resp.msg_hdr_len = t.resp.msg_hdr_len
        /\ v.resp.dirty = t.resp.dirty
        /\ v.resp.idx = IF t.resp.curr_bit \in Names
                          THEN [t.resp.idx EXCEPT ![t.resp.curr_bit] = t.buf_idx - t.parsed_len]
                          ELSE t.resp.idx
    BY <1>2, ValueNoted
  <2> HIDE DEF v, next
  <2>4. /\ u \in StateM /\ u.p_state = next /\ u.parsed_len = 0 /\ u.buff = v.buff
        /\ u.buf_idx = v.buf_idx /\ u.last_fin_idx = v.last_fin_idx /\ u.resp = v.resp
        /\ u.length = v.length /\ u.use_content_length = v.use_content_length
        /\ u.use_chunked = v.use_chunked /\ u.curr_chunked_size = v.curr_chunked_size
    BY <2>1, <2>3 DEF Begun, StateM, StatusLine
  <2> HIDE DEF u
  <2>5. m.p_state \in HeadStates
    BY <1>2, <1>6 DEF HeadStates
  <2>6. OneBody(u) /\ NoBody(u)
    BY <1>1, <1>2, <2>3, <2>4, <2>5, TakenFacts DEF OneBody, NoBody, Placed
  <2>7. ASSUME Spelled, u.p_state \in HeadStates PROVE Heading(u, rx)
    <3>1. u.p_state = "HEADER" /\ t.p_state = "FIELD_VALUE"
      BY <1>4, <1>6, <2>1, <2>4, <2>7 DEF next, HeadStates, StatusLine, HeaderField
    <3>2. Stepped(m, u, rx)
      BY <1>1, <1>2, <2>3, <2>4, <2>5, <2>7, TakenFacts DEF Stepped, Placed
    <3>3. t.buf_idx - t.parsed_len = m.buf_idx - m.parsed_len
      BY <1>2, <1>3 DEF Placed, StateM
    <3>4. /\ u.resp.dirty = m.resp.dirty
          /\ u.resp.idx = IF m.resp.curr_bit \in Names
                            THEN [m.resp.idx EXCEPT ![m.resp.curr_bit] = m.buf_idx - m.parsed_len]
                            ELSE m.resp.idx
      BY <1>2, <2>3, <2>4, <3>3 DEF Placed, SameFields
    <3> QED BY <1>2, <2>4, <3>1, <3>2, <3>4, ValueEnds
  <2> QED BY <1>1, <1>2, <2>2, <2>3, <2>4, <2>6, <2>7, RoundGoesOn DEF Placed
<1>7. CASE t.parsed_len <= 1 /\ t.p_state = "REASON_OR_RESOURCE"
  <2> DEFINE u == [t EXCEPT !.p_state = next]
  <2>1. next = "HEADER" /\ next \in PStates
    BY <1>4, <1>7 DEF PStates, HeadStates, StatusLine
  <2>2. GoOn(u)
    BY <1>1, <1>2, <1>3, <1>7
  <2> HIDE DEF next
  <2>3. Placed(m, u) /\ u.p_state = next /\ u.parsed_len = t.parsed_len
    BY <1>2, <2>1, MovedOn
  <2> HIDE DEF u
  <2>4. /\ m.p_state \in HeadStates /\ m.p_state # "FIELD_VALUE" /\ u.p_state # "FIELD_VALUE"
        /\ u.p_state \notin StatusLine \ {"HEADER"}
        /\ u.parsed_len <= m.parsed_len + 1 /\ u.p_state # "FIELD_NAME"
    BY <1>2, <1>3, <1>7, <2>1, <2>3 DEF HeadStates, StatusLine
  <2> QED BY <1>1, <2>2, <2>3, <2>4, LineGoesOn
<1>8. CASE /\ t.p_state \in HeadStates => t.parsed_len <= 1
           /\ t.p_state # "REASON_OR_RESOURCE"
  <2>1. GoOn(t)
    BY <1>1, <1>2, <1>3, <1>8 DEF HeadStates
  <2>2. m.p_state = "FIELD_VALUE" => m.parsed_len = 0
    BY <1>2, <1>3, <1>8 DEF HeadStates, HeaderField
  <2>3. Octet # COLON
    BY <1>1 DEF CR, COLON
  <2> QED BY <1>1, <1>2, <2>1, <2>2, <2>3, LineGoesOn
<1> QED BY <1>2, <1>3, <1>5, <1>6, <1>7, <1>8 DEF HeadStates, StatusLine

\* The head is complete, and t is behind it.
LEMMA HeadEndsInv ==
  ASSUME ParserInv, InHeader, UNCHANGED <<given, rx>>, m.p_state = "FIELD_NAME",
         NEW t, Placed(m, t), t.p_state = "MSG_BODY", HeadEnds(t)
  PROVE  ParserInv'
<1>1. /\ rcode = "NONE" /\ m \in StateM /\ m.last_fin_idx <= m.buf_idx /\ m.buf_idx + 1 <= Len(m.buff)
      /\ ~m.use_content_length /\ NoBody(m)
      /\ Spelled => Written(m.buff \o rx, m.buf_idx + 1)
  BY TakenFacts DEF HeadStates, HeaderField
<1>2. /\ t \in StateM /\ t.buff = m.buff /\ t.buf_idx = m.buf_idx + 1 /\ t.last_fin_idx = m.last_fin_idx
      /\ t.resp.msg_hdr_len = m.resp.msg_hdr_len + 1 /\ NoBody(t)
  BY <1>1 DEF Placed, NoBody
<1>3. t.p_state \notin HeadStates /\ "MSG_BODY" \notin HeadStates /\ "CHUNKED" \notin HeadStates
  BY DEF HeadStates, StatusLine, HeaderField
<1>4. Ordered(t)
  BY <1>1, <1>2 DEF Ordered, StateM
<1>5. Spelled => Written(t.buff \o rx, t.buf_idx)
  BY <1>1, <1>2
<1>6. CASE Finish(t)
  BY <1>1, <1>2, <1>3, <1>4, <1>5, <1>6, Finishes
<1>7. CASE \E rc \in {"REDIRECT", "CLIENT_ERR", "SERVER_ERR"} : Return(t, rc)
  BY <1>2, <1>3, <1>4, <1>7, Returns
<1>8. CASE BodyFollows([WithClose(t) EXCEPT !.parsed_len = 0])
  <2> DEFINE k == "Connection" \in t.resp.dirty /\ ValueOf(t, "Connection") = "close"
             h == [t.resp EXCEPT !.is_close = k]
             v == [t EXCEPT !.resp = h, !.parsed_len = 0]
  <2>1. t.resp \in Header /\ k \in BOOLEAN
    BY <1>2 DEF StateM, Header
  <2>2. [WithClose(t) EXCEPT !.parsed_len = 0] = v
    BY <1>2 DEF WithClose, StateM
  <2>3. BodyFollows(v)
    BY <1>8, <2>2
  <2> HIDE DEF k
  <2>4. h \in Header /\ h.msg_hdr_len = t.resp.msg_hdr_len
    BY <2>1 DEF Header
  <2> HIDE DEF h
  <2>5. /\ v \in StateM /\ v.buff = t.buff /\ v.buf_idx = t.buf_idx /\ v.last_fin_idx = t.last_fin_idx
        /\ v.resp = h /\ v.length = t.length /\ v.use_content_length = t.use_content_length
        /\ v.use_chunked = t.use_chunked /\ v.curr_chunked_size = t.curr_chunked_size
        /\ v.p_state = "MSG_BODY"
    BY <1>2, <2>4 DEF StateM, Header
  <2> HIDE DEF v
  <2>6. CASE GoOn([v EXCEPT !.p_state = "CHUNKED"])
    <3> DEFINE u == [v EXCEPT !.p_state = "CHUNKED"]
    <3>1. GoOn(u)
      BY <2>6
    <3>2. /\ u \in StateM /\ u.buff = v.buff /\ u.buf_idx = v.buf_idx /\ u.last_fin_idx = v.last_fin_idx
          /\ u.resp = v.resp /\ u.use_content_length = v.use_content_length /\ u.p_state = "CHUNKED"
      BY <2>5 DEF StateM
    <3> HIDE DEF u
    <3>3. OneBody(u)
      BY <1>2, <2>5, <3>2 DEF OneBody, NoBody
    <3> QED BY <1>2, <1>3, <2>4, <2>5, <3>1, <3>2, <3>3, RoundGoesOn
  <2>7. CASE LET n == Number(ValueOf(v, "Content-Length"))
                 u == [v EXCEPT !.use_content_length = TRUE, !.length = n]
             IN  IF n = 0 THEN Finish(u) ELSE GoOn(u)
    <3> DEFINE n == Number(ValueOf(v, "Content-Length"))
               u == [v EXCEPT !.use_content_length = TRUE, !.length = n]
    <3>1. n \in Nat
      BY NumberType
    <3>2. (n = 0 /\ Finish(u)) \/ (n # 0 /\ GoOn(u))
      BY <2>7
    <3> HIDE DEF n
    <3>3. /\ u \in StateM /\ u.buff = v.buff /\ u.buf_idx = v.buf_idx /\ u.last_fin_idx = v.last_fin_idx
          /\ u.resp = v.resp /\ u.p_state = "MSG_BODY" /\ u.length = n
          /\ u.use_chunked = v.use_chunked /\ u.curr_chunked_size = v.curr_chunked_size
      BY <2>5, <3>1 DEF StateM
    <3> HIDE DEF u
    <3>4. Ordered(u)
      BY <1>4, <2>5, <3>3 DEF Ordered
    <3>5. CASE Finish(u)
      <4>1. Spelled => Written(u.buff \o rx, u.buf_idx)
        BY <1>5, <2>5, <3>3
      <4>2. u.p_state \notin HeadStates
        BY <1>3, <3>3
      <4> QED BY <1>1, <3>3, <3>4, <3>5, <4>1, <4>2, Finishes
    <3>6. CASE n # 0 /\ GoOn(u)
      <4>1. OneBody(u)
        BY <1>2, <2>5, <3>1, <3>3, <3>6 DEF OneBody, NoBody
      <4> QED BY <1>2, <1>3, <2>4, <2>5, <3>3, <3>6, <4>1, RoundGoesOn
    <3> QED BY <3>2, <3>5, <3>6
  <2>8. CASE GoOn(v)
    <3>1. OneBody(v)
      BY <1>2, <2>5 DEF OneBody, NoBody
    <3> QED BY <1>2, <1>3, <2>4, <2>5, <2>8, <3>1, RoundGoesOn
  <2> QED BY <2>3, <2>6, <2>7, <2>8, Zenon DEF BodyFollows
<1>9. \/ Finish(t) \/ Return(t, "REDIRECT") \/ Return(t, "CLIENT_ERR") \/ Return(t, "SERVER_ERR")
      \/ BodyFollows([WithClose(t) EXCEPT !.parsed_len = 0])
  BY Zenon DEF HeadEnds
<1> QED BY <1>6, <1>7, <1>8, <1>9

\* The line of a chunk's size ends in t.
LEMMA SizeEndsInv ==
  ASSUME ParserInv, InHeader, UNCHANGED <<given, rx>>, m.p_state = "CHUNKED",
         NEW t, Placed(m, t), t.p_state = "CHUNKED", SizeEnds(t)
  PROVE  ParserInv'
<1> DEFINE n == Number(FirstOf(t))
           u == [t EXCEPT !.parsed_len = 0]
           w == [u EXCEPT !.length = n, !.use_chunked = TRUE]
<1>1. /\ rcode = "NONE" /\ m \in StateM /\ m.last_fin_idx <= m.buf_idx /\ m.buf_idx + 1 <= Len(m.buff)
      /\ ~m.use_content_length
      /\ Spelled => Written(m.buff \o rx, m.buf_idx + 1)
  BY TakenFacts
<1>2. n \in Nat /\ t \in StateM
  BY NumberType DEF Placed
<1>3. (n > 0 /\ GoOn(w)) \/ Finish(u) \/ GoOn(u)
  <2>1. \/ n > 0 \/ (n = 0 /\ t.parsed_len = 2) \/ ~(n > 0 \/ (n = 0 /\ t.parsed_len = 2))
    OBVIOUS
  <2> QED BY <2>1, Zenon DEF SizeEnds
<1> HIDE DEF n
<1>4. /\ u \in StateM /\ u.buff = t.buff /\ u.buf_idx = t.buf_idx /\ u.last_fin_idx = t.last_fin_idx
      /\ u.resp = t.resp /\ u.use_content_length = t.use_content_length /\ u.p_state = "CHUNKED"
  BY <1>2 DEF StateM
<1> HIDE DEF u
<1>5. /\ w \in StateM /\ w.buff = t.buff /\ w.buf_idx = t.buf_idx /\ w.last_fin_idx = t.last_fin_idx
      /\ w.resp = t.resp /\ w.use_content_length = t.use_content_length /\ w.p_state = "CHUNKED"
  BY <1>2, <1>4 DEF StateM
<1> HIDE DEF w
<1>6. "CHUNKED" \notin HeadStates
  BY DEF HeadStates, StatusLine, HeaderField
<1>7. OneBody(u) /\ OneBody(w)
  BY <1>1, <1>4, <1>5 DEF OneBody, Placed
<1>8. CASE GoOn(w)
  BY <1>5, <1>6, <1>7, <1>8, RoundGoesOn DEF Placed
<1>9. CASE GoOn(u)
  BY <1>4, <1>6, <1>7, <1>9, RoundGoesOn DEF Placed
<1>10. CASE Finish(u)
  <2>1. Ordered(u)
    BY <1>1, <1>4 DEF Placed, Ordered, StateM
  <2>2. Spelled => Written(u.buff \o rx, u.buf_idx)
    BY <1>1, <1>4 DEF Placed
  <2>3. u.p_state \notin HeadStates
    BY <1>4, <1>6
  <2> QED BY <1>1, <1>4, <1>10, <2>1, <2>2, <2>3, Finishes
<1> QED BY <1>3, <1>8, <1>9, <1>10

LEMMA OnLFInv ==
  ASSUME ParserInv, OnLF, UNCHANGED <<given, rx>>
  PROVE  ParserInv'
<1> DEFINE t == Taken
<1>1. /\ InHeader /\ Octet = LF
      /\ \/ t.p_state = "HEADER" /\ GoOn(Begun(t, "FIELD_NAME"))
         \/ t.p_state = "FIELD_NAME" /\ HeadEnds([t EXCEPT !.p_state = "MSG_BODY"])
         \/ t.p_state = "CHUNKED" /\ SizeEnds(t)
         \/ t.p_state \in {"CHUNKED_EXT", "NEXT_CHUNKED"} /\ GoOn(Begun(t, "CHUNKED"))
         \/ t.p_state \notin {"HEADER", "FIELD_NAME"} /\ GoOn(Begun(t, t.p_state))
  BY Zenon DEF OnLF, Begun
<1>2. Nearly(m, t) /\ t.p_state = m.p_state /\ Placed(m, t) /\ t \in StateM /\ t.parsed_len = m.parsed_len + 1
  BY <1>1, TakenFacts DEF Nearly, Placed
<1>3. m \in StateM /\ m.parsed_len \in Nat /\ m.p_state \in PStates
  BY <1>1, TakenFacts DEF StateM, PStates, HeadStates, BodyStates
<1> HIDE DEF t
<1>4. /\ "FIELD_NAME" \in PStates /\ "MSG_BODY" \in PStates /\ "CHUNKED" \in PStates
      /\ "CHUNKED" \notin HeadStates
  BY DEF PStates, HeadStates, BodyStates, StatusLine, HeaderField
<1>5. CASE t.p_state = "HEADER" /\ GoOn(Begun(t, "FIELD_NAME"))
  <2> DEFINE u == Begun(t, "FIELD_NAME")
  <2>1. GoOn(u)
    BY <1>5
  <2>2. Placed(m, u) /\ u.p_state = "FIELD_NAME" /\ u.parsed_len = 0
    BY <1>2, <1>4, Moved
  <2> HIDE DEF u
  <2>3. /\ m.p_state \in HeadStates /\ m.p_state # "FIELD_VALUE" /\ u.p_state # "FIELD_VALUE"
        /\ u.p_state \notin StatusLine \ {"HEADER"} /\ u.parsed_len <= m.parsed_len + 1
    BY <1>2, <1>3, <1>5, <2>2 DEF HeadStates, StatusLine
  <2> QED BY <1>1, <2>1, <2>2, <2>3, LineGoesOn
<1>6. CASE t.p_state = "FIELD_NAME" /\ HeadEnds([t EXCEPT !.p_state = "MSG_BODY"])
  <2> DEFINE u == [t EXCEPT !.p_state = "MSG_BODY"]
             p == "MSG_BODY"
  <2>1. Placed(m, u) /\ u.p_state = p
    <3>1. p \in PStates /\ u = [t EXCEPT !.p_state = p]
      BY <1>4
    <3> QED BY <1>2, <3>1, MovedOn
  <2>2. HeadEnds(u)
    BY <1>6
  <2> HIDE DEF u
  <2> QED BY <1>1, <1>2, <1>6, <2>1, <2>2, HeadEndsInv
<1>7. CASE t.p_state = "CHUNKED" /\ SizeEnds(t)
  BY <1>1, <1>2, <1>7, SizeEndsInv
<1>8. CASE GoOn(Begun(t, "CHUNKED"))
  <2> DEFINE u == Begun(t, "CHUNKED")
  <2>1. GoOn(u)
    BY <1>8
  <2>2. Placed(m, u) /\ u.p_state = "CHUNKED"
    BY <1>2, <1>4, Moved
  <2> HIDE DEF u
  <2> QED BY <1>1, <1>4, <2>1, <2>2, LineGoesOn
<1>9. CASE t.p_state \notin {"HEADER", "FIELD_NAME"} /\ GoOn(Begun(t, t.p_state))
  <2> DEFINE p == t.p_state
             u == Begun(t, p)
  <2>1. GoOn(u)
    BY <1>9
  <2>2. p = m.p_state /\ p \in PStates /\ p \notin {"HEADER", "FIELD_NAME"}
    BY <1>2, <1>3, <1>9
  <2> HIDE DEF p
  <2>3. Placed(m, u) /\ u.p_state = p /\ u.parsed_len = 0
    BY <1>2, <2>2, Moved
  <2> HIDE DEF u
  <2>4. CASE p \notin HeadStates
    BY <1>1, <2>1, <2>3, <2>4, LineGoesOn
  <2>5. CASE p = "FIELD_VALUE"
    BY <1>1, <2>1, <2>2, <2>3, <2>5, LineGoesOn
  <2>6. CASE p \in {"VER", "CODE_OR_TOKEN", "REASON_OR_RESOURCE"}
    <3>1. /\ m.p_state \in HeadStates /\ m.p_state # "FIELD_VALUE" /\ u.p_state # "FIELD_VALUE"
          /\ u.p_state \in StatusLine \ {"HEADER"} => m.p_state \in StatusLine \ {"HEADER"}
          /\ u.parsed_len <= m.parsed_len + 1 /\ u.p_state # "FIELD_NAME"
      BY <1>3, <2>2, <2>3, <2>6 DEF HeadStates, StatusLine
    <3> QED BY <1>1, <2>1, <2>3, <3>1, LineGoesOn
  <2> QED BY <2>2, <2>4, <2>5, <2>6 DEF HeadStates, StatusLine, HeaderField
<1> QED BY <1>1, <1>5, <1>6, <1>7, <1>8, <1>9

-----------------------------------------------------------------------------
(* Receiving, with and without compaction. *)

LEMMA SplitRest ==
  ASSUME NEW s \in Seq(Octets), NEW r \in Seq(Octets), NEW n \in 1..Len(r)
  PROVE  LET a == SubSeq(r, 1, n)
             z == SubSeq(r, n + 1, Len(r))
         IN  /\ a \in Seq(Octets) /\ z \in Seq(Octets) /\ Len(a) = n
             /\ s \o a \in Seq(Octets) /\ Len(s \o a) = Len(s) + n
             /\ (s \o a) \o z = s \o r
             /\ \A j \in 1..Len(s) : (s \o a)[j] = s[j]
<1> DEFINE a == SubSeq(r, 1, n)
           z == SubSeq(r, n + 1, Len(r))
<1>1. Len(r) \in Nat /\ Len(s) \in Nat
  OBVIOUS
<1>2. a \in Seq(Octets) /\ Len(a) = n /\ \A j \in 1..n : a[j] = r[j]
  BY <1>1, SubSeqProperties
<1>3. z \in Seq(Octets) /\ Len(z) = Len(r) - n /\ \A j \in 1..(Len(r) - n) : z[j] = r[n + j]
  BY <1>1, SubSeqProperties
<1> HIDE DEF a, z
<1>4. s \o a \in Seq(Octets) /\ Len(s \o a) = Len(s) + n
      /\ \A j \in 1..Len(s) + n : (s \o a)[j] = IF j <= Len(s) THEN s[j] ELSE a[j - Len(s)]
  BY <1>1, <1>2
<1>5. (s \o a) \o z = s \o r
  <2> DEFINE x == (s \o a) \o z
             y == s \o r
  <2>1. x \in Seq(Octets) /\ y \in Seq(Octets) /\ Len(x) = Len(s) + Len(r) /\ Len(y) = Len(s) + Len(r)
    <3>1. y \in Seq(Octets) /\ Len(y) = Len(s) + Len(r)
      OBVIOUS
    <3>2. x \in Seq(Octets) /\ Len(x) = Len(s \o a) + Len(z)
      BY <1>3, <1>4, ConcatProperties
    <3>3. (Len(s) + n) + (Len(r) - n) = Len(s) + Len(r)
      BY <1>1
    <3> HIDE DEF x, y
    <3> QED BY <1>3, <1>4, <3>1, <3>2, <3>3
  <2>2. ASSUME NEW j \in 1..Len(x) PROVE x[j] = y[j]
    <3>1. y[j] = IF j <= Len(s) THEN s[j] ELSE r[j - Len(s)]
      BY <2>1
    <3>2. x[j] = IF j <= Len(s) + n THEN (s \o a)[j] ELSE z[j - (Len(s) + n)]
      BY <1>3, <1>4, <2>1
    <3>3. CASE j <= Len(s)
      BY <1>1, <1>4, <2>1, <3>1, <3>2, <3>3
    <3>4. CASE j > Len(s) /\ j <= Len(s) + n
      <4>1. j - Len(s) \in 1..n
        BY <1>1, <2>1, <3>4
      <4> QED BY <1>1, <1>2, <1>4, <2>1, <3>1, <3>2, <3>4, <4>1
    <3>5. CASE j > Len(s) + n
      <4>1. j - (Len(s) + n) \in 1..(Len(r) - n) /\ n + (j - (Len(s) + n)) = j - Len(s) /\ ~(j <= Len(s))
        BY <1>1, <2>1, <3>5
      <4>2. x[j] = z[j - (Len(s) + n)] /\ y[j] = r[j - Len(s)]
        BY <2>1, <3>1, <3>2, <3>5, <4>1
      <4> QED BY <1>3, <4>1, <4>2
    <3>6. j \in Int /\ Len(s) \in Int /\ Len(s) + n \in Int
      BY <1>1, <2>1
    <3>7. j <= Len(s) \/ (j > Len(s) /\ j <= Len(s) + n) \/ j > Len(s) + n
      BY <3>6
    <3> QED BY <3>3, <3>4, <3>5, <3>7
  <2> HIDE DEF x, y
  <2>3. x = y
    BY <2>1, <2>2, SeqEqual
  <2> QED BY <2>3 DEF x, y
<1>6. \A j \in 1..Len(s) : (s \o a)[j] = s[j]
  BY <1>1, <1>4
<1> QED BY <1>2, <1>3, <1>4, <1>5, <1>6 DEF a, z

\* A head that moves to another place of the buffer as a whole.
LEMMA ShiftedHeading ==
  ASSUME NEW s \in StateM, NEW u \in StateM, NEW r, NEW q, NEW d \in Nat, Heading(s, r),
         s.last_fin_idx <= s.buf_idx, s.buf_idx = Len(s.buff),
         u.last_fin_idx = s.last_fin_idx - d, u.buf_idx = s.buf_idx - d, u.buf_idx <= Len(u.buff),
         u.p_state = s.p_state, u.parsed_len = s.parsed_len,
         u.resp.dirty = s.resp.dirty, u.resp.curr_bit = s.resp.curr_bit,
         \A n \in s.resp.dirty : u.resp.idx[n] = s.resp.idx[n] - d,
         \A j \in s.last_fin_idx + 1 .. s.buf_idx : u.buff[j - d] = s.buff[j],
         Written(u.buff \o q, u.last_fin_idx)
  PROVE  Heading(u, q)
<1> DEFINE b == s.buf_idx
           l == s.last_fin_idx
           p == s.parsed_len
           M == Len(u.buff)
<1>1. /\ l \in Nat /\ b \in Nat /\ p \in Nat /\ p <= b - l /\ l <= b /\ M \in Nat /\ b - d <= M
      /\ u.last_fin_idx = l - d /\ u.buf_idx = b - d /\ u.parsed_len = p
      /\ s.resp.dirty \subseteq Names /\ s.resp.idx \in [Names -> Int]
      /\ u.buf_idx \in Nat /\ u.last_fin_idx \in Nat
  <2>1. /\ l \in Nat /\ b \in Nat /\ p \in Nat /\ s.resp.dirty \subseteq Names
        /\ s.resp.idx \in [Names -> Int]
    BY DEF StateM
  <2>2. u.buf_idx \in Nat /\ u.last_fin_idx \in Nat /\ u.buff \in Seq(Octets)
    BY DEF StateM
  <2>3. M \in Nat
    BY <2>2
  <2>4. p <= b - l
    BY DEF Heading
  <2> QED BY <2>1, <2>2, <2>3, <2>4
<1>2. /\ \A j \in l + 1 .. b : u.buff[j - d] = s.buff[j]
      /\ Len(s.buff) = b /\ M = Len(u.buff)
  OBVIOUS
<1> HIDE DEF b, l, p, M
<1>3. ASSUME NEW n, NEW c \in Int, At(s, n, c) PROVE At(u, n, c - d)
  <2>1. c - 1 > l /\ c <= b /\ s.buff[c - 1] = n /\ s.buff[c] = COLON
    BY <1>2, <1>3 DEF At, l
  <2>2. c \in l + 1 .. b /\ c - 1 \in l + 1 .. b
    BY <1>1, <2>1
  <2>3. u.buff[c - d] = COLON /\ u.buff[(c - 1) - d] = n
    BY <1>2, <2>1, <2>2
  <2>4. (c - d) - 1 = (c - 1) - d /\ (c - d) - 1 > l - d /\ c - d <= M
    BY <1>1, <2>1
  <2> QED BY <1>1, <1>2, <2>3, <2>4 DEF At
<1>4. u.parsed_len <= u.buf_idx - u.last_fin_idx
  <2>1. p <= (b - d) - (l - d)
    BY <1>1
  <2> QED BY <1>1, <2>1
<1>5. InName(u)
  <2> SUFFICES ASSUME s.p_state = "FIELD_NAME", NEW j \in (b - d) - p + 1 .. b - d PROVE u.buff[j] # COLON
    BY <1>1 DEF InName
  <2>1. j + d \in b - p + 1 .. b /\ j + d \in l + 1 .. b /\ (j + d) - d = j
    BY <1>1
  <2>2. s.buff[j + d] # COLON
    BY <2>1 DEF Heading, InName, b, p
  <2> QED BY <1>2, <2>1, <2>2
<1>6. InValue(u)
  <2> SUFFICES ASSUME s.p_state = "FIELD_VALUE", s.resp.curr_bit \in Names
               PROVE  /\ At(u, s.resp.curr_bit, (b - d) - p)
                      /\ \A j \in (b - d) - p + 2 .. b - d : u.buff[j] # CR
    BY <1>1 DEF InValue
  <2>1. At(s, s.resp.curr_bit, b - p) /\ \A j \in b - p + 2 .. b : s.buff[j] # CR
    BY DEF Heading, InValue, b, p
  <2>2. b - p \in Int /\ (b - p) - d = (b - d) - p
    BY <1>1
  <2>3. At(u, s.resp.curr_bit, (b - p) - d)
    BY <1>3, <2>1, <2>2
  <2>4. ASSUME NEW j \in (b - d) - p + 2 .. b - d PROVE u.buff[j] # CR
    <3>1. j + d \in b - p + 2 .. b /\ j + d \in l + 1 .. b /\ (j + d) - d = j
      BY <1>1
    <3> QED BY <1>2, <2>1, <3>1
  <2> QED BY <2>2, <2>3, <2>4
<1>7. Found(u)
  <2> SUFFICES ASSUME NEW n \in s.resp.dirty, ~(s.p_state = "FIELD_VALUE" /\ n = s.resp.curr_bit)
               PROVE  At(u, n, u.resp.idx[n])
    BY DEF Found
  <2>1. At(s, n, s.resp.idx[n])
    BY DEF Heading, Found
  <2>2. s.resp.idx[n] \in Int
    BY <1>1
  <2>3. At(u, n, s.resp.idx[n] - d)
    BY <1>3, <2>1, <2>2
  <2> QED BY <2>3
<1> QED BY <1>4, <1>5, <1>6, <1>7 DEF Heading

\* What has been received stands behind what there was.
Refilled(t, d) == [t EXCEPT !.buff = @ \o d]

LEMMA RefilledGood ==
  ASSUME NEW t, NEW nb, Plain(t, nb), t.buf_idx = Len(t.buff), NEW r \in Seq(Octets), NEW n \in 1..Len(r)
  PROVE  LET u == Refilled(t, SubSeq(r, 1, n))
         IN  Plain(u, nb) /\ (Spell(t, r) => Spell(u, SubSeq(r, n + 1, Len(r))))
<1> DEFINE a == SubSeq(r, 1, n)
           z == SubSeq(r, n + 1, Len(r))
           u == Refilled(t, a)
           L == Len(t.buff)
<1>1. /\ t \in StateM /\ Ordered(t) /\ HeadCounted(t, nb) /\ OneBody(t) /\ t.buff \in Seq(Octets) /\ L \in Nat
      /\ t.buf_idx \in Nat /\ t.last_fin_idx \in Nat
  BY DEF Plain, StateM
<1>2. /\ t.buff \o a \in Seq(Octets) /\ Len(t.buff \o a) = L + n /\ (t.buff \o a) \o z = t.buff \o r
      /\ \A j \in 1..L : (t.buff \o a)[j] = t.buff[j]
  BY <1>1, SplitRest
<1> HIDE DEF a, z, L
<1>3. /\ u \in StateM /\ u.buff = t.buff \o a /\ u.buf_idx = t.buf_idx /\ u.last_fin_idx = t.last_fin_idx
      /\ u.resp = t.resp /\ u.p_state = t.p_state /\ u.parsed_len = t.parsed_len /\ u.length = t.length
      /\ u.use_content_length = t.use_content_length /\ u.use_chunked = t.use_chunked
      /\ u.curr_chunked_size = t.curr_chunked_size
  BY <1>1, <1>2 DEF Refilled, StateM
<1> HIDE DEF u
<1>4. Ordered(u)
  BY <1>1, <1>2, <1>3 DEF Ordered, L
<1>5. HeadCounted(u, nb) /\ OneBody(u) /\ (u.p_state \in HeadStates => NoBody(u))
  BY <1>1, <1>3 DEF Plain, HeadCounted, OneBody, NoBody
<1>6. ASSUME Spell(t, r) PROVE Spell(u, z)
  <2>1. Written(u.buff \o z, u.buf_idx)
    BY <1>2, <1>3, <1>6 DEF Spell
  <2>2. ASSUME u.p_state \in HeadStates PROVE Heading(u, z)
    <3>1. Heading(t, r)
      BY <1>3, <1>6, <2>2 DEF Spell
    <3>2. u.buff \o z = t.buff \o r
      BY <1>2, <1>3
    <3>3. Written(u.buff \o z, u.last_fin_idx)
      BY <1>3, <3>1, <3>2 DEF Heading
    <3>4. /\ 0 \in Nat /\ u.last_fin_idx = t.last_fin_idx - 0 /\ u.buf_idx = t.buf_idx - 0
          /\ u.buf_idx <= Len(u.buff) /\ u.resp.dirty = t.resp.dirty /\ u.resp.curr_bit = t.resp.curr_bit
          /\ \A k \in t.resp.dirty : u.resp.idx[k] = t.resp.idx[k] - 0
          /\ \A j \in t.last_fin_idx + 1 .. t.buf_idx : u.buff[j - 0] = t.buff[j]
      <4>1. t.resp.dirty \subseteq Names /\ t.resp.idx \in [Names -> Int]
        BY <1>1 DEF StateM
      <4>2. \A k \in t.resp.dirty : t.resp.idx[k] \in Int
        BY <4>1
      <4>3. ASSUME NEW j \in t.last_fin_idx + 1 .. t.buf_idx PROVE u.buff[j - 0] = t.buff[j]
        <5>1. j \in 1..L /\ j - 0 = j
          BY <1>1 DEF L
        <5> QED BY <1>2, <1>3, <5>1
      <4> QED BY <1>1, <1>3, <1>4, <4>2, <4>3 DEF Ordered
    <3> QED BY <1>1, <1>3, <3>1, <3>3, <3>4, ShiftedHeading DEF Ordered
  <2> QED BY <2>1, <2>2 DEF Spell
<1> QED BY <1>1, <1>3, <1>4, <1>5, <1>6 DEF Plain, a, z, u

LEMMA KeptLenFacts ==
  ASSUME NEW s, Plain(s, NON_BLOCK), s.buf_idx = Len(s.buff)
  PROVE  /\ KeptLen(s) \in Nat /\ KeptLen(s) <= Len(s.buff) - s.last_fin_idx
         /\ s.resp.msg_hdr_len <= KeptLen(s) \/ (~NON_BLOCK /\ s.use_content_length)
         /\ s.p_state \in HeadStates => KeptLen(s) = Len(s.buff) - s.last_fin_idx
<1> DEFINE L == Len(s.buff)
           h == s.resp.msg_hdr_len
           l == s.last_fin_idx
           between == s.length = 0 /\ s.curr_chunked_size > 0
<1>1. /\ L \in Nat /\ h \in Nat /\ l \in Nat /\ l <= L
      /\ h <= L - l \/ (~NON_BLOCK /\ s.use_content_length)
      /\ s.use_content_length \in BOOLEAN /\ s.use_chunked \in BOOLEAN
  BY DEF Plain, StateM, Ordered, HeadCounted
<1>2. OneBody(s) /\ (s.p_state \in HeadStates => NoBody(s))
  BY DEF Plain
<1>3. ~(s.use_content_length /\ between)
  BY <1>2 DEF OneBody
<1>4. CASE NON_BLOCK /\ (s.use_content_length \/ s.use_chunked \/ between)
  <2>1. KeptLen(s) = h
    BY <1>4, Zenon DEF KeptLen
  <2>2. s.p_state \notin HeadStates
    BY <1>2, <1>4 DEF NoBody
  <2> QED BY <1>1, <1>4, <2>1, <2>2
<1>5. CASE ~NON_BLOCK /\ s.use_content_length
  <2>1. KeptLen(s) = 0
    BY <1>3, <1>5, Zenon DEF KeptLen
  <2>2. s.p_state \notin HeadStates
    BY <1>2, <1>5 DEF NoBody
  <2> QED BY <1>1, <1>5, <2>1, <2>2
<1>6. CASE ~NON_BLOCK /\ between
  <2>1. KeptLen(s) = h
    BY <1>3, <1>6, Zenon DEF KeptLen
  <2>2. s.p_state \notin HeadStates
    BY <1>2, <1>6 DEF NoBody
  <2> QED BY <1>1, <1>3, <1>6, <2>1, <2>2
<1>7. CASE /\ ~(NON_BLOCK /\ (s.use_content_length \/ s.use_chunked \/ between))
           /\ ~(~NON_BLOCK /\ s.use_content_length) /\ ~(~NON_BLOCK /\ between)
  <2>1. KeptLen(s) = L - l
    BY <1>7, Zenon DEF KeptLen
  <2> HIDE DEF L, h, l
  <2>2. L - l \in Nat
    BY <1>1
  <2> QED BY <1>1, <1>7, <2>1, <2>2 DEF L, h, l
<1> QED BY <1>4, <1>5, <1>6, <1>7

\* What is left of buffer b when the k octets behind place l are kept, and how
\* the octets still to come, r, stand to it.
KeptOf(b, l, k) == SubSeq(b, l + 1, l + k)

KeepsOctets(b, r, l, k, L) ==
  LET v == KeptOf(b, l, k)
  IN  /\ v \in Seq(Octets) /\ Len(v) = k /\ \A j \in 1..k : v[j] = b[l + j]
      /\ Written(b \o r, L) => Written(v \o r, k)
      /\ k = L - l /\ Written(b \o r, l) => Written(v \o r, 0)

LEMMA KeptOctets ==
  ASSUME NEW b \in Seq(Octets), NEW r \in Seq(Octets), NEW l \in Nat, NEW k \in Nat,
         NEW L \in Nat, L = Len(b), l + k <= L
  PROVE  KeepsOctets(b, r, l, k, L)
<1> DEFINE v == KeptOf(b, l, k)
           w == b \o r
           x == v \o r
           R == Len(r)
<1>1. l + 1 \in 1..L + 1 /\ l + k \in (l + 1) - 1 .. L /\ (l + k) - (l + 1) + 1 = k
  OBVIOUS
<1>2. /\ v \in Seq(Octets) /\ Len(v) = (l + k) - (l + 1) + 1
      /\ \A j \in 1..(l + k) - (l + 1) + 1 : v[j] = b[(l + 1) + j - 1]
  <2> DEFINE f == l + 1
             g == l + k
  <2>1. v = SubSeq(b, f, g)
    BY DEF KeptOf
  <2>f. f \in Int /\ g \in Int
    BY <1>1
  <2>2. \A i \in f..g : b[i] \in Octets
    <3>1. \A i \in f..g : i \in 1..Len(b)
      BY <1>1
    <3> QED BY <1>1, <3>1
  <2> HIDE DEF v, f, g
  <2>s. LET slice == SubSeq(b, f, g)
        IN  /\ slice \in Seq(Octets) /\ Len(slice) = IF f <= g THEN g - f + 1 ELSE 0
            /\ \A j \in 1..g - f + 1 : slice[j] = b[f + j - 1]
    BY <2>f, <2>2, SubSeqProperties
  <2>3. /\ v \in Seq(Octets) /\ Len(v) = IF f <= g THEN g - f + 1 ELSE 0
        /\ \A j \in 1..g - f + 1 : v[j] = b[f + j - 1]
    BY <2>1, <2>s
  <2>4. (IF f <= g THEN g - f + 1 ELSE 0) = (l + k) - (l + 1) + 1
    BY <1>1 DEF f, g
  <2> QED BY <2>3, <2>4 DEF f, g
<1>3. v \in Seq(Octets) /\ Len(v) = k /\ \A j \in 1..k : v[j] = b[l + j]
  <2>1. \A j \in 1..k : (l + 1) + j - 1 = l + j
    OBVIOUS
  <2> HIDE DEF v
  <2> QED BY <1>1, <1>2, <2>1
<1> HIDE DEF v
<1>4. /\ w \in Seq(Octets) /\ Len(w) = L + R /\ R \in Nat
      /\ \A j \in 1..L + R : w[j] = IF j <= L THEN b[j] ELSE r[j - L]
  BY ConcatProperties
<1>5. /\ x \in Seq(Octets) /\ Len(x) = k + R
      /\ \A j \in 1..k + R : x[j] = IF j <= k THEN v[j] ELSE r[j - k]
  <2>1. /\ x \in Seq(Octets) /\ Len(x) = Len(v) + R
        /\ \A j \in 1..Len(v) + R : x[j] = IF j <= Len(v) THEN v[j] ELSE r[j - Len(v)]
    <3>1. v \in Seq(Octets) /\ r \in Seq(Octets)
      BY <1>3
    <3> QED BY <3>1, ConcatProperties
  <2>2. Len(v) = k
    BY <1>3
  <2> HIDE DEF x, R
  <2> QED BY <2>1, <2>2
<1> HIDE DEF w, x, R
<1>6. ASSUME NEW j \in k + 1 .. k + R PROVE x[j] = w[j + (L - k)]
  <2>1. j \in 1..k + R /\ ~(j <= k) /\ j + (L - k) \in 1..L + R /\ ~(j + (L - k) <= L)
        /\ (j + (L - k)) - L = j - k
    BY <1>4
  <2> QED BY <1>4, <1>5, <2>1
<1>7. ASSUME Written(w, L) PROVE Written(x, k)
  <2> DEFINE d == L - k
  <2>1. d \in Int /\ L <= k + d /\ Len(x) <= Len(w) - d
    BY <1>4, <1>5
  <2>2. \A j \in k + 1 .. Len(x) : x[j] = w[j + d]
    BY <1>5, <1>6
  <2> HIDE DEF d
  <2> QED BY <1>4, <1>5, <1>7, <2>1, <2>2, WrittenMoved
<1>8. ASSUME k = L - l, Written(w, l) PROVE Written(x, 0)
  <2>1. l \in Int /\ l <= 0 + l /\ Len(x) <= Len(w) - l /\ 0 \in Nat
    BY <1>4, <1>5, <1>8
  <2>2. ASSUME NEW j \in 0 + 1 .. Len(x) PROVE x[j] = w[j + l]
    <3>1. CASE j > k
      <4>1. R \in Nat /\ Len(x) = k + R
        BY <1>4, <1>5
      <4>2. j \in k + 1 .. k + R
        BY <3>1, <4>1
      <4>3. L - k = l
        BY <1>8
      <4> QED BY <1>6, <4>2, <4>3
    <3>2. CASE j <= k
      <4>1. j \in 1..k /\ j \in 1..k + R /\ j + l \in 1..L + R /\ j + l <= L /\ l + j = j + l
        BY <1>4, <1>5, <1>8, <3>2
      <4> QED BY <1>3, <1>4, <1>5, <4>1
    <3> QED BY <1>4, <1>5, <3>1, <3>2
  <2> QED BY <1>4, <1>5, <1>8, <2>1, <2>2, WrittenMoved
<1> QED BY <1>3, <1>7, <1>8 DEF KeepsOctets, v, w, x

LEMMA CompactedGood ==
  ASSUME NEW s, Plain(s, NON_BLOCK), s.buf_idx = Len(s.buff), NEW r \in Seq(Octets)
  PROVE  LET t == Compacted(s)
         IN  /\ Plain(t, NON_BLOCK) /\ t.buf_idx = Len(t.buff)
             /\ Spell(s, r) => Spell(t, r)
<1>1. CASE Len(s.buff) <= MAX_BUFF - CHUNK_SIZE
  BY <1>1 DEF Compacted
<1>2. CASE ~(Len(s.buff) <= MAX_BUFF - CHUNK_SIZE)
  <2> DEFINE k == KeptLen(s)
             l == s.last_fin_idx
             L == Len(s.buff)
             v == SubSeq(s.buff, l + 1, l + k)
             p == IF s.use_content_length \/ (NON_BLOCK /\ s.use_chunked) THEN 0 ELSE s.parsed_len
             i == ShiftedIdx(s)
             h == [s.resp EXCEPT !.idx = i]
             t == [s EXCEPT !.buff = v, !.buf_idx = k, !.last_fin_idx = 0, !.parsed_len = p, !.resp = h]
  <2>1. s \in StateM /\ Ordered(s) /\ OneBody(s) /\ (s.p_state \in HeadStates => NoBody(s))
    BY DEF Plain
  <2>2. Compacted(s) = t
    BY <1>2, <2>1 DEF Compacted, StateM
  <2>3. /\ s.buff \in Seq(Octets) /\ L \in Nat /\ l \in Nat /\ l <= L /\ s.parsed_len \in Nat
        /\ s.resp \in Header /\ s.resp.dirty \subseteq Names /\ s.resp.idx \in [Names -> Int]
    BY <2>1 DEF StateM, Header, Ordered
  <2>4. /\ k \in Nat /\ k <= L - l
        /\ s.resp.msg_hdr_len <= k \/ (~NON_BLOCK /\ s.use_content_length)
        /\ s.p_state \in HeadStates => k = L - l
    BY KeptLenFacts
  <2>5. p \in Nat /\ (s.p_state \in HeadStates => p = s.parsed_len)
    BY <2>1, <2>3 DEF NoBody
  <2>6. i \in [Names -> Int] /\ \A n \in s.resp.dirty : i[n] = s.resp.idx[n] - l
    BY <2>3 DEF ShiftedIdx
  <2> HIDE DEF k, p, i
  <2>7. /\ v \in Seq(Octets) /\ Len(v) = k /\ \A j \in 1..k : v[j] = s.buff[l + j]
        /\ Written(s.buff \o r, L) => Written(v \o r, k)
        /\ k = L - l /\ Written(s.buff \o r, l) => Written(v \o r, 0)
    <3> HIDE DEF l
    <3> DEFINE b == s.buff
    <3>1. L = Len(b)
      OBVIOUS
    <3>2. b \in Seq(Octets)
      BY <2>3
    <3>3. l \in Nat /\ L \in Nat
      BY <2>3
    <3>4. k \in Nat
      BY <2>4
    <3> HIDE DEF L, b
    <3>5. l + k <= L
      BY <2>3, <2>4
    <3>6. KeepsOctets(b, r, l, k, L)
      BY <3>1, <3>2, <3>3, <3>4, <3>5, KeptOctets
    <3>7. v = KeptOf(b, l, k)
      BY DEF b, KeptOf
    <3> HIDE DEF v
    <3> QED BY <3>6, <3>7 DEF b, KeepsOctets
  <2> HIDE DEF v
  <2>8. /\ h \in Header /\ h.msg_hdr_len = s.resp.msg_hdr_len /\ h.dirty = s.resp.dirty
        /\ h.curr_bit = s.resp.curr_bit /\ h.idx = i
    BY <2>3, <2>6 DEF Header
  <2> HIDE DEF h
  <2>9. /\ t \in StateM /\ t.buff = v /\ t.buf_idx = k /\ t.last_fin_idx = 0 /\ t.parsed_len = p
        /\ t.resp = h /\ t.p_state = s.p_state /\ t.length = s.length
        /\ t.use_content_length = s.use_content_length /\ t.use_chunked = s.use_chunked
        /\ t.curr_chunked_size = s.curr_chunked_size
    BY <2>1, <2>4, <2>5, <2>7, <2>8 DEF StateM, Header
  <2> HIDE DEF t
  <2>10. t.buf_idx = Len(t.buff) /\ Ordered(t)
    BY <2>4, <2>7, <2>9 DEF Ordered
  <2>11. HeadCounted(t, NON_BLOCK)
    <3>1. k - 0 = k
      BY <2>4
    <3> QED BY <2>4, <2>8, <2>9, <3>1 DEF HeadCounted
  <2>12. OneBody(t) /\ (t.p_state \in HeadStates => NoBody(t))
    BY <2>1, <2>9 DEF OneBody, NoBody
  <2>13. ASSUME Spell(s, r) PROVE Spell(t, r)
    <3>1. Written(t.buff \o r, t.buf_idx)
      BY <2>7, <2>9, <2>13 DEF Spell
    <3>2. ASSUME t.p_state \in HeadStates PROVE Heading(t, r)
      <4>1. Heading(s, r) /\ s.p_state \in HeadStates
        BY <2>9, <2>13, <3>2 DEF Spell
      <4>2. k = L - l /\ p = s.parsed_len
        BY <2>4, <2>5, <4>1
      <4>3. Written(v \o r, 0)
        BY <2>7, <4>1, <4>2 DEF Heading
      <4>4. ASSUME NEW j \in l + 1 .. L PROVE v[j - l] = s.buff[j]
        <5> HIDE DEF l, L
        <5>1. j - l \in 1..k /\ l + (j - l) = j
          BY <2>3, <4>2
        <5> QED BY <2>7, <5>1
      <4>5. l - l = 0 /\ k <= k
        BY <2>3, <2>4
      <4>6. /\ t.last_fin_idx = s.last_fin_idx - l /\ t.buf_idx = s.buf_idx - l /\ t.buf_idx <= Len(t.buff)
            /\ t.p_state = s.p_state /\ t.parsed_len = s.parsed_len
            /\ t.resp.dirty = s.resp.dirty /\ t.resp.curr_bit = s.resp.curr_bit
            /\ \A n \in s.resp.dirty : t.resp.idx[n] = s.resp.idx[n] - l
            /\ \A j \in s.last_fin_idx + 1 .. s.buf_idx : t.buff[j - l] = s.buff[j]
            /\ Written(t.buff \o r, t.last_fin_idx)
            /\ s.last_fin_idx <= s.buf_idx
        BY <2>3, <2>6, <2>7, <2>8, <2>9, <4>2, <4>3, <4>4, <4>5
      <4> QED BY <2>1, <2>3, <2>9, <4>1, <4>6, ShiftedHeading
    <3> QED BY <3>1, <3>2 DEF Spell
  <2>14. Plain(t, NON_BLOCK)
    BY <2>9, <2>10, <2>11, <2>12 DEF Plain
  <2> QED BY <2>2, <2>10, <2>13, <2>14
<1> QED BY <1>1, <1>2

LEMMA RecvInv == ASSUME ParserInv, Recv PROVE ParserInv'
<1> DEFINE t == Compacted(m)
<1>1. PICK n \in 1..CHUNK_SIZE : /\ n <= Len(rx)
                                 /\ state_m' = [t EXCEPT !.buff = @ \o SubSeq(rx, 1, n)]
                                 /\ rx' = SubSeq(rx, n + 1, Len(rx))
  BY DEF Recv
<1>2. rcode = "NONE" /\ Avail = 0 /\ UNCHANGED <<given, calls>>
  BY DEF Recv, NeedData
<1>3. rx \in Seq(Octets) /\ Plain(m, NON_BLOCK) /\ (Spelled => Spell(m, rx))
  BY <1>2 DEF ParserInv, Typed, Good, m
<1>4. m.buf_idx = Len(m.buff)
  <2>1. m.buf_idx \in Nat /\ Len(m.buff) \in Nat
    BY <1>3 DEF Plain, StateM
  <2> QED BY <1>2, <2>1 DEF Avail
<1>5. Plain(t, NON_BLOCK) /\ t.buf_idx = Len(t.buff) /\ (Spell(m, rx) => Spell(t, rx))
  BY <1>3, <1>4, CompactedGood
<1> HIDE DEF t
<1>6. n \in 1..Len(rx)
  BY <1>1, <1>3, ParserAssumption
<1> DEFINE u == Refilled(t, SubSeq(rx, 1, n))
<1>7. state_m' = u
  BY <1>1 DEF Refilled
<1>8. Plain(u, NON_BLOCK) /\ (Spell(t, rx) => Spell(u, SubSeq(rx, n + 1, Len(rx))))
  BY <1>3, <1>5, <1>6, RefilledGood
<1>9. SubSeq(rx, n + 1, Len(rx)) \in Seq(Octets)
  BY <1>3, <1>6, SplitRest
<1> HIDE DEF u
<1>10. Good(state_m)'
  <2>1. NON_BLOCK' = NON_BLOCK
    BY <1>2 DEF NON_BLOCK, given
  <2>2. Plain(state_m', NON_BLOCK')
    BY <1>7, <1>8, <2>1
  <2>3. Spelled => Spell(state_m', rx')
    BY <1>1, <1>3, <1>5, <1>7, <1>8
  <2> QED BY <2>2, <2>3 DEF Good, Plain, Spell
<1>11. Typed'
  BY <1>1, <1>2, <1>9 DEF ParserInv, Typed, given, calls
<1> QED BY <1>2, <1>10, <1>11 DEF ParserInv, calls

LEMMA RecvEofInv == ASSUME ParserInv, RecvEof PROVE ParserInv'
<1>1. Typed'
  BY DEF ParserInv, Typed, RecvEof, given, Rcodes
<1>2. Over(Fresh)
  BY FreshState DEF Over, Plain, Found, Fresh, NoHeader
<1>3. Over(state_m)'
  BY <1>2 DEF RecvEof, Over
<1> QED BY <1>1, <1>3 DEF ParserInv, RecvEof

\* The call is over without another word.
LEMMA NothingExpectedInv == ASSUME ParserInv, NothingExpected PROVE ParserInv'
<1>1. Typed'
  BY DEF ParserInv, Typed, NothingExpected, given, Rcodes
<1>2. Good(m) /\ state_m' = state_m /\ rcode' # "NONE"
  BY DEF ParserInv, NothingExpected, NeedData, m
<1>3. Over(m)
  BY <1>2 DEF Good, Plain, Spell, Heading, Over
<1>4. Over(state_m)'
  BY <1>2, <1>3 DEF Over, m
<1> QED BY <1>1, <1>2, <1>4 DEF ParserInv

LEMMA ParserNext == ParserInv /\ [Next]_vars => ParserInv'
<1> SUFFICES ASSUME ParserInv, [Next]_vars PROVE ParserInv'
  OBVIOUS
<1>1. CASE SkipAll /\ UNCHANGED <<given, rx>>
  BY <1>1, SkipAllInv
<1>2. CASE EndBody /\ UNCHANGED <<given, rx>>
  BY <1>2, EndBodyInv
<1>3. CASE EndChunk /\ UNCHANGED <<given, rx>>
  BY <1>3, EndChunkInv
<1>4. CASE OnCR /\ UNCHANGED <<given, rx>>
  BY <1>4, OnCRInv
<1>5. CASE OnLF /\ UNCHANGED <<given, rx>>
  BY <1>5, OnLFInv
<1>6. CASE OnSP /\ UNCHANGED <<given, rx>>
  BY <1>6, OnSPInv
<1>7. CASE OnColon /\ UNCHANGED <<given, rx>>
  BY <1>7, OnColonInv
<1>8. CASE OnOther /\ UNCHANGED <<given, rx>>
  BY <1>8, OnOtherInv
<1>9. CASE Recv
  BY <1>9, RecvInv
<1>10. CASE RecvEof
  BY <1>10, RecvEofInv
<1>11. CASE NothingExpected
  BY <1>11, NothingExpectedInv
<1>12. CASE UNCHANGED vars
  BY <1>12 DEF ParserInv, Typed, Good, Over, NON_BLOCK, vars, given, calls
<1> QED BY <1>1, <1>2, <1>3, <1>4, <1>5, <1>6, <1>7, <1>8, <1>9, <1>10, <1>11, <1>12
        DEF Next, http_resp_parser, Returned

LEMMA ParserAlways == Spec => []ParserInv
  BY ParserInit, ParserNext, PTL DEF Spec

-----------------------------------------------------------------------------
(* How far the parser is in a response. *)

\* t has looked at c octets of the response o, which are still in the buffer.
Behind(t, o, c) == /\ t.buf_idx = t.last_fin_idx + c
                   /\ \A j \in 1..c : t.buff[t.last_fin_idx + j] = o[j]

Is(t, p, n) == t.p_state = p /\ t.parsed_len = n

\* The known fields that begin in front of place a of a head of h octets.
Known(o, h, a) == {n \in Names : \E x \in FieldsOf(o, h, n) : x < a}

\* What t has noted of them: the names in front of a, and the values of those in
\* front of b.
Table(t, o, h, a, b) ==
  /\ t.resp.dirty = Known(o, h, a)
  /\ \A n \in Known(o, h, b) : \E x \in FieldsOf(o, h, n) :
       x < b /\ t.resp.idx[n] = t.last_fin_idx + x + 2
  /\ (\E d \in FieldsOf(o, h, "Transfer-Encoding"), y \in Fields(o, h) :
        o[d + 4] = "chunked" /\ d < y /\ y < b /\ o[y + 1] \in Names) => t.resp.use_chunked

\* The places of a head.
InStatus(t, o, h, c) ==
  /\ \E e \in LineEnds(o, h) : StatusAt(o, e) /\ c <= e - 2
  /\ Table(t, o, h, 0, 0)
  /\ \/ c = 0 /\ Is(t, "VER", 0)
     \/ c = 1 /\ Is(t, "VER", 1)
     \/ c = 2 /\ Is(t, "CODE_OR_TOKEN", 0)
     \/ c = 3 /\ Is(t, "CODE_OR_TOKEN", 1)
     \/ c >= 4 /\ Is(t, "REASON_OR_RESOURCE", c - 4)
AtLineEnd(t, o, h, c)   == c + 1 \in LineEnds(o, h) /\ t.p_state = "HEADER" /\ Table(t, o, h, c + 1, c + 1)
AtLineStart(t, o, h, c) == c \in LineEnds(o, h) /\ Is(t, "FIELD_NAME", 0) /\ Table(t, o, h, c, c)
BehindName(t, o, h, c)  == c - 1 \in Fields(o, h) /\ Is(t, "FIELD_NAME", 1) /\ Table(t, o, h, c - 1, c - 1)
InFieldValue(t, o, h, c) ==
  \E d \in Fields(o, h), e \in LineEnds(o, h) :
    /\ FieldAt(o, d, e) /\ c \in d + 2 .. e - 2 /\ Is(t, "FIELD_VALUE", c - d - 2)
    /\ t.resp.curr_bit = IF o[d + 1] \in Names THEN o[d + 1] ELSE "none"
    /\ Table(t, o, h, d + 1, d)
AtHeadEnd(t, o, h, c)   == c = h - 1 /\ Is(t, "FIELD_NAME", 1) /\ Table(t, o, h, h - 2, h - 2)

InFields(t, o, h, c) ==
  \/ AtLineEnd(t, o, h, c) \/ AtLineStart(t, o, h, c) \/ BehindName(t, o, h, c)
  \/ InFieldValue(t, o, h, c) \/ AtHeadEnd(t, o, h, c)

InHead(t, o, h, c) ==
  /\ c < h /\ Behind(t, o, c) /\ t.resp.msg_hdr_len = c /\ ~t.resp.is_close /\ NoBody(t)
  /\ c >= 4 => t.resp.status_code = o[3] /\ o[3] \in Codes
  /\ InStatus(t, o, h, c) \/ (c >= 4 /\ InFields(t, o, h, c))

\* A body whose length was given.
SizedRest(t, o, h, c) ==
  /\ t.p_state = "MSG_BODY" /\ t.use_content_length /\ ~t.use_chunked
  /\ h <= c /\ c < Len(o) /\ t.length = Len(o) - c /\ t.resp.msg_hdr_len = h

\* The places of a chunk's line at b, of the chunk and of the end.
Idle(t) == t.length = 0 /\ ~t.use_chunked
InSize(t, b, c) ==
  /\ Idle(t) /\ t.p_state = "CHUNKED" /\ c \in b .. b + 2 /\ t.parsed_len = c - b
InData(t, o, B, b, c) ==
  \E n \in 1 .. Len(o) :
    /\ ChunkAt(o, b, n) /\ b + 5 + n \in B
    /\ \/ /\ c \in b + 3 .. b + 2 + n /\ t.use_chunked /\ t.length = b + 3 + n - c
          /\ t.p_state \notin HeadStates
       \/ c \in b + 3 + n .. b + 4 + n /\ Idle(t) /\ t.p_state = "NEXT_CHUNKED"
InLast(t, o, b, c) ==
  LastAt(o, b) /\ Idle(t) /\ t.p_state = "CHUNKED" /\ c \in b + 3 .. b + 4 /\ t.parsed_len = c - (b + 3)
Chunks(t, o, h, c) ==
  /\ ChunkedBody(o, h) /\ Behind(t, o, c) /\ t.resp.use_chunked /\ ~t.use_content_length
  /\ \E B \in SUBSET SizeLines(o, h) : ChunksAt(o, B) /\ \E b \in B :
       InSize(t, b, c) \/ InData(t, o, B, b, c) \/ InLast(t, o, b, c)

\* Whether the connection ends with it.
Ends(t, r) == r.verdict = IF t.resp.is_close THEN "CLOSE" ELSE "FIN"

Tracks(t, r, h, c) ==
  \/ InHead(t, r.octets, h, c)
  \/ (SizedRest(t, r.octets, h, c) \/ Chunks(t, r.octets, h, c)) /\ Ends(t, r)

-----------------------------------------------------------------------------
(* How far the driver is in the stream. *)

\* The octets of the first k responses of s.
Upto(s, k) == OctetsOf(SubSeq(s, 1, k))

\* Of the z octets sent, those neither still to be received nor to be looked at.
Passed(z, x, t) == (z - Len(x)) - (Len(t.buff) - t.buf_idx)

\* What the buffer holds behind buf_idx, and what is still to be received, are
\* the octets of the stream that follow those passed.
Sees(s, z, x, t) ==
  /\ z <= Len(OctetsOf(s)) /\ Len(x) <= z
  /\ \A i \in 1..Len(x) : x[i] = OctetsOf(s)[(z - Len(x)) + i]
  /\ Len(t.buff) <= z - Len(x)
  /\ \A i \in 1..Len(t.buff) - t.buf_idx : t.buff[t.buf_idx + i] = OctetsOf(s)[Passed(z, x, t) + i]

\* f responses were complete, and none of them ended the call; n are to come.
Counts(s, d, n, f) ==
  /\ f <= Len(s) /\ n = Len(s) - f
  /\ \A k \in 1..f : s[k].verdict = "FIN" \/ (d # "non_blocking" /\ s[k].verdict = "CLOSE")

\* The parser is in r, behind c octets of it.
Amid(t, r, c) ==
  \E h \in 1 .. Len(r.octets) : ResponseAt(r, h) /\ c < Len(r.octets) /\ Tracks(t, r, h, c)

Going(s, z, d, x, t, n, f) ==
  /\ Sees(s, z, x, t) /\ Counts(s, d, n, f) /\ Len(Upto(s, f)) <= Passed(z, x, t)
  /\ f < Len(s) => Amid(t, s[f + 1], Passed(z, x, t) - Len(Upto(s, f)))

StreamInv == IF rcode = "NONE" THEN Going(stream, size, driver, rx, state_m, num_reqs, fin_resp) ELSE Verdict

-----------------------------------------------------------------------------
(* The lines of a head. *)

LEMMA HeadFacts ==
  ASSUME NEW o \in Seq(Octets), NEW h, HeadAt(o, h)
  PROVE  /\ h \in Nat /\ Len(o) \in Nat /\ 2 <= h /\ h <= Len(o) /\ o[h - 1] = CR /\ o[h] = LF
         /\ \A e \in LineEnds(o, h) : e \in Nat /\ 1 <= e /\ e <= h - 2 /\ o[e] = LF
         /\ \A d \in Fields(o, h) : d \in Nat /\ 1 <= d /\ d < h - 2 /\ o[d] = LF
         /\ \A e \in LineEnds(o, h) : e = h - 2 \/ e \in Fields(o, h)
<1>1. Len(o) \in Nat /\ h \in 2 .. Len(o) /\ o[h - 1] = CR /\ o[h] = LF
  BY DEF HeadAt
<1>2. ASSUME NEW e \in LineEnds(o, h) PROVE e \in Nat /\ 1 <= e /\ e <= h - 2 /\ o[e] = LF
  BY <1>1 DEF LineEnds
<1>3. ASSUME NEW d \in Fields(o, h) PROVE d \in Nat /\ 1 <= d /\ d < h - 2 /\ o[d] = LF
  <2>1. d \in LineEnds(o, h) /\ d # h - 2
    BY DEF Fields
  <2> QED BY <1>1, <1>2, <2>1
<1>4. \A e \in LineEnds(o, h) : e = h - 2 \/ e \in Fields(o, h)
  BY DEF Fields
<1> QED BY <1>1, <1>2, <1>3, <1>4

\* No line ends within a line.
LEMMA WithinLine ==
  ASSUME NEW o \in Seq(Octets), NEW h, HeadAt(o, h), NEW i \in Nat, NEW j \in Nat, LineAt(o, i, j)
  PROVE  \A x \in Fields(o, h) : x < j => x <= i
<1> SUFFICES ASSUME NEW x \in Fields(o, h), x < j, i < x PROVE FALSE
  BY HeadFacts
<1>1. x \in Nat /\ o[x] = LF
  BY HeadFacts
<1>2. o[j - 1] = CR /\ \A c \in i + 1 .. j - 2 : o[c] \notin {CR, LF}
  BY DEF LineAt
<1>3. x = j - 1 \/ x \in i + 1 .. j - 2
  BY <1>1
<1> QED BY <1>1, <1>2, <1>3 DEF CR, LF

\* The fields in front of the end of a line are those that begin with it or before.
LEMMA KnownAtEnd ==
  ASSUME NEW o \in Seq(Octets), NEW h, HeadAt(o, h), NEW d \in Nat, NEW e \in Nat, LineAt(o, d, e)
  PROVE  Known(o, h, e) = Known(o, h, d + 1)
<1>1. \A x \in Fields(o, h) : x < e <=> x < d + 1
  <2>1. d + 2 <= e
    BY DEF LineAt
  <2>2. ASSUME NEW x \in Fields(o, h) PROVE x < e <=> x < d + 1
    <3>1. x \in Nat /\ (x < e => x <= d)
      BY HeadFacts, WithinLine
    <3> QED BY <2>1, <3>1
  <2> QED BY <2>2
<1>2. \A n : \A x \in FieldsOf(o, h, n) : x \in Fields(o, h)
  BY DEF FieldsOf
<1> QED BY <1>1, <1>2 DEF Known

LEMMA NoneKnown ==
  ASSUME NEW o \in Seq(Octets), NEW h, HeadAt(o, h)
  PROVE  Known(o, h, 0) = {} /\ Known(o, h, 1) = {}
<1>1. \A n : \A x \in FieldsOf(o, h, n) : ~(x < 0) /\ ~(x < 1)
  <2>1. ASSUME NEW n, NEW x \in FieldsOf(o, h, n) PROVE x \in Nat /\ 1 <= x
    <3>1. x \in Fields(o, h)
      BY DEF FieldsOf
    <3> QED BY <3>1, HeadFacts
  <2> QED BY <2>1
<1> QED BY <1>1 DEF Known

\* The table depends on what is noted alone.
SameTable(s, t) == /\ t.resp.dirty = s.resp.dirty /\ t.resp.idx = s.resp.idx
                   /\ t.resp.use_chunked = s.resp.use_chunked /\ t.last_fin_idx = s.last_fin_idx

LEMMA TableKept ==
  ASSUME NEW s, NEW t, SameTable(s, t), NEW o, NEW h, NEW a, NEW b, Table(s, o, h, a, b)
  PROVE  Table(t, o, h, a, b)
BY DEF SameTable, Table

\* Behind the status line.
LEMMA TableAtFirst ==
  ASSUME NEW t, NEW o \in Seq(Octets), NEW h, HeadAt(o, h), NEW e \in Nat, LineAt(o, 0, e),
         Table(t, o, h, 0, 0)
  PROVE  Table(t, o, h, e, e)
<1>1. Known(o, h, e) = {} /\ Known(o, h, 0) = {}
  BY NoneKnown, KnownAtEnd
<1>2. \A y \in Fields(o, h) : ~(y < e)
  <2>1. ASSUME NEW y \in Fields(o, h), y < e PROVE FALSE
    BY <2>1, HeadFacts, WithinLine
  <2> QED BY <2>1
<1> QED BY <1>1, <1>2 DEF Table

\* A name is noted.
LEMMA TableOfName ==
  ASSUME NEW t, NEW u, NEW o \in Seq(Octets), NEW h, HeadAt(o, h), NEW d \in Fields(o, h), Table(t, o, h, d, d),
         u.resp.dirty = t.resp.dirty \cup ({o[d + 1]} \cap Names), u.resp.idx = t.resp.idx,
         u.resp.use_chunked = t.resp.use_chunked, u.last_fin_idx = t.last_fin_idx
  PROVE  Table(u, o, h, d + 1, d)
<1>1. Known(o, h, d + 1) = Known(o, h, d) \cup ({o[d + 1]} \cap Names)
  <2>1. ASSUME NEW n \in Names
        PROVE  (\E x \in FieldsOf(o, h, n) : x < d + 1) <=> (\E x \in FieldsOf(o, h, n) : x < d) \/ n = o[d + 1]
    <3>1. \A x \in FieldsOf(o, h, n) : x \in Nat /\ o[x + 1] = n
      BY HeadFacts DEF FieldsOf
    <3>2. d \in Nat
      BY HeadFacts
    <3>3. n = o[d + 1] => d \in FieldsOf(o, h, n)
      BY DEF FieldsOf
    <3> QED BY <3>1, <3>2, <3>3
  <2> QED BY <2>1 DEF Known
<1> QED BY <1>1 DEF Table

\* What a field is remembered by leads to its value.
LEMMA ValueAt ==
  ASSUME NEW t \in StateM, Ordered(t), NEW o \in Seq(Octets), NEW c \in Nat, Behind(t, o, c), NEW n,
         NEW x \in Nat, x + 4 <= c, t.resp.idx[n] = t.last_fin_idx + x + 2
  PROVE  ValueOf(t, n) = o[x + 4]
<1> DEFINE l == t.last_fin_idx
           L == Len(t.buff)
<1>1. l \in Nat /\ L \in Nat /\ l + c <= L
  BY DEF StateM, Ordered, Behind
<1>2. t.buff[l + (x + 4)] = o[x + 4]
  BY <1>1 DEF Behind
<1> HIDE DEF l, L
<1>3. (l + x + 2) + 2 \in 1..L /\ (l + x + 2) + 2 = l + (x + 4)
  BY <1>1
<1>4. t.resp.idx[n] = l + x + 2
  BY DEF l
<1>5. ValueOf(t, n) = t.buff[(l + x + 2) + 2]
  BY <1>3, <1>4 DEF ValueOf, L
<1> QED BY <1>2, <1>3, <1>5

LEMMA FieldUnique ==
  ASSUME NEW o, NEW h, HeadAt(o, h), NEW n \in Names, n # "Server",
         NEW x \in FieldsOf(o, h, n), NEW y \in FieldsOf(o, h, n)
  PROVE  x = y
BY DEF HeadAt

\* A field is as long as its line, and the next begins behind it.
LEMMA FieldEnds ==
  ASSUME NEW o \in Seq(Octets), NEW h, HeadAt(o, h), NEW d \in Fields(o, h)
  PROVE  /\ \E e \in LineEnds(o, h) : FieldAt(o, d, e)
         /\ \A y \in Fields(o, h) : d < y => d + 6 <= y
         /\ d + 6 <= h - 2
<1>1. PICK e \in LineEnds(o, h) : FieldAt(o, d, e)
  BY DEF HeadAt
<1>2. LineAt(o, d, e) /\ d + 6 <= e /\ d \in Nat /\ e \in Nat /\ e <= h - 2 /\ h \in Nat
  BY <1>1, HeadFacts DEF FieldAt
<1>3. ASSUME NEW y \in Fields(o, h), d < y PROVE d + 6 <= y
  <2>1. y \in Nat /\ (y < e => y <= d)
    BY <1>2, HeadFacts, WithinLine
  <2> QED BY <1>2, <1>3, <2>1
<1> QED BY <1>1, <1>2, <1>3

LEMMA ValueNotedHead ==
  ASSUME NEW t \in StateM
  PROVE  LET v == WithValue(t)
         IN  /\ v.resp.is_close = t.resp.is_close /\ v.resp.status_code = t.resp.status_code
             /\ v.resp.use_chunked <=> \/ t.resp.use_chunked
                                       \/ /\ t.resp.curr_bit \in Names
                                          /\ "Transfer-Encoding" \in t.resp.dirty
                                          /\ t.resp.curr_bit # "Transfer-Encoding"
                                          /\ ValueOf(t, "Transfer-Encoding") = "chunked"
<1> DEFINE c == t.resp.curr_bit
           k == \/ t.resp.use_chunked
                \/ /\ "Transfer-Encoding" \in t.resp.dirty
                   /\ c # "Transfer-Encoding"
                   /\ ValueOf(t, "Transfer-Encoding") = "chunked"
           i == [t.resp.idx EXCEPT ![c] = t.buf_idx - t.parsed_len]
           h == [t.resp EXCEPT !.use_chunked = k, !.idx = i]
           v == [t EXCEPT !.resp = h]
<1>1. CASE c \notin Names
  BY <1>1 DEF WithValue
<1>2. CASE c \in Names
  <2>1. t.resp \in Header
    BY DEF StateM, Header
  <2>2. WithValue(t) = v
    BY <1>2, <2>1 DEF WithValue, StateM, Header
  <2> HIDE DEF i, k
  <2>3. h.is_close = t.resp.is_close /\ h.status_code = t.resp.status_code /\ h.use_chunked = k
    BY <2>1 DEF Header
  <2> HIDE DEF h
  <2>4. v.resp = h
    BY DEF StateM
  <2> HIDE DEF v
  <2> QED BY <1>2, <2>2, <2>3, <2>4 DEF k
<1> QED BY <1>1, <1>2

\* A value is noted, and with it what the table knows up to the end of the line.
LEMMA TableOfValue ==
  ASSUME NEW t \in StateM, Ordered(t), NEW o \in Seq(Octets), NEW h, HeadAt(o, h),
         NEW d \in Fields(o, h), NEW e \in LineEnds(o, h), FieldAt(o, d, e),
         Table(t, o, h, d + 1, d), NEW c \in Nat, Behind(t, o, c), d + 2 <= c,
         t.resp.curr_bit = IF o[d + 1] \in Names THEN o[d + 1] ELSE "none",
         t.buf_idx - t.parsed_len = t.last_fin_idx + d + 2
  PROVE  Table(WithValue(t), o, h, e, e)
<1> DEFINE v == WithValue(t)
           b == t.resp.curr_bit
<1>1. /\ v.last_fin_idx = t.last_fin_idx /\ v.resp.dirty = t.resp.dirty
      /\ v.resp.idx = IF b \in Names THEN [t.resp.idx EXCEPT ![b] = t.last_fin_idx + d + 2]
                      ELSE t.resp.idx
  BY ValueNoted
<1>2. v.resp.use_chunked <=> \/ t.resp.use_chunked
                             \/ /\ b \in Names /\ "Transfer-Encoding" \in t.resp.dirty
                                /\ b # "Transfer-Encoding"
                                /\ ValueOf(t, "Transfer-Encoding") = "chunked"
  BY ValueNotedHead
<1>3. d \in Nat /\ e \in Nat /\ LineAt(o, d, e) /\ d + 6 <= e
  BY HeadFacts DEF FieldAt
<1>4. \A x \in Fields(o, h) : x \in Nat /\ (x < e => x <= d)
  BY <1>3, HeadFacts, WithinLine
<1>5. Known(o, h, e) = Known(o, h, d + 1) /\ t.resp.dirty = Known(o, h, d + 1)
  BY <1>3, KnownAtEnd DEF Table
<1>6. \A n, x : x \in FieldsOf(o, h, n) <=> x \in Fields(o, h) /\ o[x + 1] = n
  BY DEF FieldsOf
<1>7. "none" \notin Names /\ "Transfer-Encoding" \in Names
  BY DEF Names
<1>8. b \in Names => b = o[d + 1]
  BY <1>7
<1>9. t.resp.idx \in [Names -> Int]
  BY DEF StateM
<1> HIDE DEF v, b
<1>10. ASSUME NEW n \in Known(o, h, e)
       PROVE  \E x \in FieldsOf(o, h, n) : x < e /\ v.resp.idx[n] = v.last_fin_idx + x + 2
  <2>1. n \in Names /\ \E x \in FieldsOf(o, h, n) : x < d + 1
    BY <1>5 DEF Known
  <2>2. CASE n = o[d + 1]
    <3>1. d \in FieldsOf(o, h, n) /\ b = n /\ d < e
      BY <1>3, <1>6, <2>1, <2>2 DEF b
    <3>2. v.resp.idx[n] = v.last_fin_idx + d + 2
      BY <1>1, <1>9, <2>1, <3>1
    <3> QED BY <3>1, <3>2
  <2>3. CASE n # o[d + 1]
    <3>1. n \in Known(o, h, d)
      <4>1. PICK x \in FieldsOf(o, h, n) : x < d + 1
        BY <2>1
      <4>2. x \in Nat /\ x # d
        BY <1>4, <1>6, <2>3, <4>1
      <4>3. x < d
        BY <1>3, <4>1, <4>2
      <4> QED BY <2>1, <4>3 DEF Known
    <3>2. PICK x \in FieldsOf(o, h, n) : x < d /\ t.resp.idx[n] = t.last_fin_idx + x + 2
      BY <3>1 DEF Table
    <3>3. v.resp.idx[n] = t.resp.idx[n]
      BY <1>1, <1>8, <1>9, <2>1, <2>3
    <3>4. x < e
      <4>1. x \in Nat /\ x < d
        BY <1>4, <1>6, <3>2
      <4> QED BY <1>3, <4>1
    <3> QED BY <1>1, <3>2, <3>3, <3>4
  <2> QED BY <2>2, <2>3
<1>11. ASSUME NEW f \in FieldsOf(o, h, "Transfer-Encoding"), NEW y \in Fields(o, h),
              o[f + 4] = "chunked", f < y, y < e, o[y + 1] \in Names
       PROVE  v.resp.use_chunked
  <2>1. y \in Nat /\ y <= d /\ f \in Nat /\ f \in Fields(o, h)
    BY <1>4, <1>6, <1>11
  <2>2. CASE y < d
    BY <1>2, <1>11, <2>2 DEF Table
  <2>3. CASE y = d
    <3>1. b = o[d + 1] /\ b \in Names
      BY <1>11, <2>3 DEF b
    <3>2. b # "Transfer-Encoding"
      <4>1. SUFFICES ASSUME b = "Transfer-Encoding" PROVE FALSE
        OBVIOUS
      <4>2. d \in FieldsOf(o, h, "Transfer-Encoding")
        BY <1>6, <3>1, <4>1
      <4>3. f = d
        BY <1>7, <4>2, <1>11, FieldUnique
      <4> QED BY <1>11, <2>3, <4>3, <2>1
    <3>3. "Transfer-Encoding" \in Known(o, h, d) /\ "Transfer-Encoding" \in Known(o, h, d + 1)
      BY <1>3, <1>7, <1>11, <2>1, <2>3 DEF Known
    <3>4. PICK x \in FieldsOf(o, h, "Transfer-Encoding") :
               t.resp.idx["Transfer-Encoding"] = t.last_fin_idx + x + 2
      BY <3>3 DEF Table
    <3>5. x = f
      BY <1>7, <1>11, FieldUnique
    <3>6. f + 4 <= c
      <4>1. f + 6 <= d
        BY <1>11, <2>1, <2>3, FieldEnds
      <4> QED BY <1>3, <2>1, <4>1
    <3>7. ValueOf(t, "Transfer-Encoding") = "chunked"
      BY <1>11, <2>1, <3>4, <3>5, <3>6, ValueAt
    <3> QED BY <1>2, <1>5, <3>1, <3>2, <3>3, <3>7
  <2> QED BY <1>3, <2>1, <2>2, <2>3
<1> QED BY <1>1, <1>5, <1>10, <1>11 DEF Table, v

-----------------------------------------------------------------------------
(* One round of the parser within a response. *)

\* The parser goes on with k octets more behind it, or the response ends there.
Ahead(t, k) == t.buff = m.buff /\ t.buf_idx = m.buf_idx + k
Result(r, h, c, k) ==
  \/ \E t : GoOn(t) /\ Ahead(t, k) /\ Tracks(t, r, h, c + k) /\ c + k < Len(r.octets)
  \/ \E t : Finish(t) /\ Ahead(t, k) /\ Ends(t, r) /\ c + k = Len(r.octets)
  \/ \E t : Return(t, r.verdict) /\ t.buff = m.buff /\ r.verdict \notin {"FIN", "CLOSE"}

\* t keeps all that was noted of the head.
Kept(s, t) == /\ Placed(s, t) /\ SameTable(s, t)
              /\ t.resp.is_close = s.resp.is_close /\ t.resp.status_code = s.resp.status_code

LEMMA KeptOn ==
  ASSUME NEW s, NEW t, Kept(s, t), NEW u, Placed(s, u), u.resp = t.resp
  PROVE  Kept(s, u)
BY DEF Kept, SameTable, Placed, SameFields

LEMMA CountingKept ==
  ASSUME NEW s \in StateM
  PROVE  Kept(s, [s EXCEPT !.buf_idx = @ + 1, !.parsed_len = @ + 1, !.resp.msg_hdr_len = @ + 1])
<1> DEFINE h == [s.resp EXCEPT !.msg_hdr_len = @ + 1]
           t == [s EXCEPT !.buf_idx = @ + 1, !.parsed_len = @ + 1, !.resp = h]
<1>1. /\ h.is_close = s.resp.is_close /\ h.status_code = s.resp.status_code /\ h.dirty = s.resp.dirty
      /\ h.idx = s.resp.idx /\ h.use_chunked = s.resp.use_chunked
  BY DEF StateM, Header
<1>2. [s EXCEPT !.buf_idx = @ + 1, !.parsed_len = @ + 1, !.resp.msg_hdr_len = @ + 1] = t
  BY DEF StateM
<1> HIDE DEF h
<1>3. t.resp = h /\ t.last_fin_idx = s.last_fin_idx
  BY DEF StateM
<1>4. Placed(s, t)
  BY <1>2, CountingTaken DEF NearlyCounted, Nearly
<1> HIDE DEF t
<1> QED BY <1>1, <1>2, <1>3, <1>4 DEF Kept, SameTable

LEMMA TakenKept ==
  ASSUME ParserInv, InHeader
  PROVE  Kept(m, Taken) /\ Taken.parsed_len = m.parsed_len + 1 /\ Taken.p_state = m.p_state
<1>1. m \in StateM /\ Nearly(m, Taken) /\ Taken.p_state = m.p_state
  BY TakenFacts
<1>2. Kept(m, Taken)
  BY <1>1, CountingKept DEF Taken
<1> QED BY <1>1, <1>2 DEF Nearly

\* The octet decides which round it is.
LEMMA ByOctet ==
  ASSUME InHeader, http_resp_parser
  PROVE  /\ Octet = CR => OnCR
         /\ Octet = LF => OnLF
         /\ Octet = SP => OnSP
         /\ Octet = COLON => OnColon
         /\ Octet \notin Separators => OnOther
<1>1. ~SkipAll /\ ~EndBody /\ ~EndChunk
  BY DEF InHeader, SkipAll, EndBody, EndChunk
<1>2. OnCR \/ OnLF \/ OnSP \/ OnColon \/ OnOther
  BY <1>1 DEF http_resp_parser
<1>3. /\ OnCR => Octet = CR
      /\ OnLF => Octet = LF
      /\ OnSP => Octet = SP
      /\ OnColon => Octet = COLON
      /\ OnOther => Octet \notin Separators
  BY DEF OnCR, OnLF, OnSP, OnColon, OnOther, Separators
<1>4. CR # LF /\ CR # SP /\ CR # COLON /\ LF # SP /\ LF # COLON /\ SP # COLON
  BY DEF CR, LF, SP, COLON
<1> QED BY <1>2, <1>3, <1>4 DEF Separators

\* The state in a head, and the octet that follows.
HeadRound(r, h, c) ==
  /\ ParserInv /\ http_resp_parser /\ r \in Responses /\ ResponseAt(r, h) /\ c \in Nat
  /\ InHead(m, r.octets, h, c) /\ Octet = r.octets[c + 1]

LEMMA HeadRoundFacts ==
  ASSUME NEW r, NEW h, NEW c, HeadRound(r, h, c)
  PROVE  /\ InHeader /\ r.octets \in Seq(Octets) /\ HeadAt(r.octets, h) /\ h \in Nat /\ c \in Nat /\ c < h
         /\ h <= Len(r.octets) /\ Len(r.octets) \in Nat
         /\ m \in StateM /\ Ordered(m) /\ Behind(m, r.octets, c) /\ m.last_fin_idx \in Nat /\ m.buf_idx \in Nat
         /\ m.parsed_len \in Nat /\ m.resp.msg_hdr_len = c /\ ~m.resp.is_close /\ NoBody(m)
         /\ c >= 4 => m.resp.status_code = r.octets[3] /\ r.octets[3] \in Codes
         /\ Kept(m, Taken) /\ Placed(m, Taken) /\ Taken.parsed_len = m.parsed_len + 1
         /\ Taken.p_state = m.p_state
         /\ InStatus(m, r.octets, h, c) \/ (c >= 4 /\ InFields(m, r.octets, h, c))
<1> DEFINE o == r.octets
<1>1. ParserInv /\ http_resp_parser /\ c \in Nat /\ InHead(m, o, h, c) /\ o \in Seq(Octets) /\ HeadAt(o, h)
  BY DEF HeadRound, Responses, ResponseAt
<1>2. Round
  BY <1>1 DEF http_resp_parser, SkipAll, EndBody, EndChunk, OnCR, OnLF, OnSP, OnColon, OnOther, InHeader
<1>3. /\ c < h /\ Behind(m, o, c) /\ m.resp.msg_hdr_len = c /\ ~m.resp.is_close /\ NoBody(m)
      /\ c >= 4 => m.resp.status_code = o[3] /\ o[3] \in Codes
      /\ InStatus(m, o, h, c) \/ (c >= 4 /\ InFields(m, o, h, c))
  BY <1>1 DEF InHead
<1>4. InHeader
  BY <1>2, <1>3 DEF InHeader, InBody, InChunk, NoBody
<1>5. m \in StateM /\ Ordered(m)
  BY <1>1, <1>2, RoundFacts
<1>6. m.last_fin_idx \in Nat /\ m.buf_idx \in Nat /\ m.parsed_len \in Nat
  BY <1>5 DEF StateM
<1>7. Kept(m, Taken) /\ Taken.parsed_len = m.parsed_len + 1 /\ Taken.p_state = m.p_state
  BY <1>1, <1>4, TakenKept
<1>8. h \in Nat /\ h <= Len(o) /\ Len(o) \in Nat
  BY <1>1, HeadFacts
<1> HIDE DEF o
<1> QED BY <1>1, <1>3, <1>4, <1>5, <1>6, <1>7, <1>8 DEF Kept, o

\* With its octet looked at, a response is still behind the parser.
LEMMA BehindOn ==
  ASSUME NEW s \in StateM, NEW u, NEW o, NEW c \in Nat, Behind(s, o, c),
         u.buff = s.buff, u.buf_idx = s.buf_idx + 1, u.last_fin_idx = s.last_fin_idx,
         s.buff[s.buf_idx + 1] = o[c + 1]
  PROVE  Behind(u, o, c + 1)
<1>1. s.last_fin_idx \in Nat /\ s.buf_idx = s.last_fin_idx + c
  BY DEF StateM, Behind
<1>2. s.buf_idx + 1 = s.last_fin_idx + (c + 1)
  BY <1>1
<1>3. ASSUME NEW j \in 1..c + 1 PROVE s.buff[s.last_fin_idx + j] = o[j]
  <2>1. j = c + 1 \/ j \in 1..c
    OBVIOUS
  <2> QED BY <1>2, <2>1 DEF Behind
<1> QED BY <1>2, <1>3 DEF Behind

\* One octet more of a head is behind u than behind s.
Further(s, u) ==
  /\ u.buff = s.buff /\ u.buf_idx = s.buf_idx + 1 /\ u.last_fin_idx = s.last_fin_idx
  /\ u.resp.msg_hdr_len = s.resp.msg_hdr_len + 1
  /\ u.length = s.length /\ u.use_content_length = s.use_content_length
  /\ u.use_chunked = s.use_chunked /\ u.curr_chunked_size = s.curr_chunked_size

LEMMA HeadGoesFurther ==
  ASSUME NEW r, NEW h, NEW c, HeadRound(r, h, c), NEW u, GoOn(u), Further(m, u), c + 1 < h,
         ~u.resp.is_close,
         c + 1 >= 4 => u.resp.status_code = r.octets[3] /\ r.octets[3] \in Codes,
         InStatus(u, r.octets, h, c + 1) \/ (c + 1 >= 4 /\ InFields(u, r.octets, h, c + 1))
  PROVE  Result(r, h, c, 1)
<1> DEFINE o == r.octets
<1>1. /\ h \in Nat /\ c \in Nat /\ h <= Len(o) /\ Len(o) \in Nat
      /\ m \in StateM /\ Behind(m, o, c) /\ m.resp.msg_hdr_len = c /\ NoBody(m)
  BY HeadRoundFacts
<1>2. Behind(u, o, c + 1)
  <2>1. u.buff = m.buff /\ u.buf_idx = m.buf_idx + 1 /\ u.last_fin_idx = m.last_fin_idx
    BY DEF Further
  <2>2. m.buff[m.buf_idx + 1] = o[c + 1]
    BY DEF HeadRound, Octet
  <2> HIDE DEF o
  <2> QED BY <1>1, <2>1, <2>2, BehindOn
<1>3. u.resp.msg_hdr_len = c + 1 /\ NoBody(u) /\ Ahead(u, 1)
  BY <1>1 DEF Further, NoBody, Ahead
<1>4. InHead(u, o, h, c + 1)
  BY <1>2, <1>3 DEF InHead
<1>5. Tracks(u, r, h, c + 1)
  BY <1>4 DEF Tracks
<1>6. c + 1 < Len(o)
  <2> HIDE DEF o
  <2> QED BY <1>1
<1> QED BY <1>3, <1>5, <1>6 DEF Result

LEMMA HeadGoesOn ==
  ASSUME NEW r, NEW h, NEW c, HeadRound(r, h, c), NEW u, GoOn(u), Placed(m, u), c + 1 < h,
         ~u.resp.is_close,
         c + 1 >= 4 => u.resp.status_code = r.octets[3] /\ r.octets[3] \in Codes,
         InStatus(u, r.octets, h, c + 1) \/ (c + 1 >= 4 /\ InFields(u, r.octets, h, c + 1))
  PROVE  Result(r, h, c, 1)
<1>1. Further(m, u)
  BY DEF Placed, Further
<1> QED BY <1>1, HeadGoesFurther

LEMMA FirstIs ==
  ASSUME NEW s \in StateM, NEW t, Placed(s, t), NEW o, NEW c \in Nat, Behind(s, o, c),
         s.buff[s.buf_idx + 1] = o[c + 1], NEW k \in 1 .. c + 1, t.parsed_len = c + 2 - k
  PROVE  FirstOf(t) = o[k]
<1>1. t.buff = s.buff /\ t.buf_idx = s.buf_idx + 1 /\ t.last_fin_idx = s.last_fin_idx
  BY DEF Placed
<1>2. s.last_fin_idx \in Nat /\ s.buf_idx = s.last_fin_idx + c
  BY DEF StateM, Behind
<1>3. Behind(t, o, c + 1)
  BY <1>1, BehindOn
<1>4. t.buff[t.last_fin_idx + k] = o[k]
  BY <1>3 DEF Behind
<1>5. t.buf_idx - t.parsed_len + 1 = t.last_fin_idx + k
  BY <1>1, <1>2
<1> QED BY <1>4, <1>5 DEF FirstOf

\* What is noted of the status line.
LEMMA VersionNoted ==
  ASSUME NEW s, NEW t, Kept(s, t), NEW u, u = [t EXCEPT !.resp.http_ver = 2]
  PROVE  Kept(s, u) /\ u.p_state = t.p_state /\ u.parsed_len = t.parsed_len
<1> DEFINE g == [t.resp EXCEPT !.http_ver = 2]
<1>1. t \in StateM /\ Placed(s, t) /\ SameTable(s, t) /\ t.resp.is_close = s.resp.is_close
      /\ t.resp.status_code = s.resp.status_code
  BY DEF Kept, Placed
<1>2. /\ g.is_close = t.resp.is_close /\ g.status_code = t.resp.status_code /\ g.dirty = t.resp.dirty
      /\ g.idx = t.resp.idx /\ g.use_chunked = t.resp.use_chunked
  BY <1>1 DEF StateM, Header
<1>3. u = [t EXCEPT !.resp = g]
  BY <1>1 DEF StateM
<1> HIDE DEF g
<1>4. u.resp = g /\ u.last_fin_idx = t.last_fin_idx
  BY <1>1, <1>3 DEF StateM
<1>5. Placed(s, u) /\ u.p_state = t.p_state /\ u.parsed_len = t.parsed_len
  <2>1. "200" \in Codes /\ 2 \in {0, 2}
    BY DEF Codes
  <2> QED BY <1>1, <2>1, Noted
<1> QED BY <1>1, <1>2, <1>4, <1>5 DEF Kept, SameTable

WithCode(t, c) == [t EXCEPT !.resp.status_code = c]
Coded(s, u, c) == /\ Placed(s, u) /\ SameTable(s, u) /\ u.resp.is_close = s.resp.is_close
                  /\ u.resp.status_code = c

LEMMA CodeNoted ==
  ASSUME NEW s, NEW t, Kept(s, t), NEW c \in Codes
  PROVE  LET u == WithCode(t, c)
         IN  Coded(s, u, c) /\ u.p_state = t.p_state /\ u.parsed_len = t.parsed_len
<1> DEFINE u == WithCode(t, c)
           g == [t.resp EXCEPT !.status_code = c]
<1>1. t \in StateM /\ Placed(s, t) /\ SameTable(s, t) /\ t.resp.is_close = s.resp.is_close
  BY DEF Kept, Placed
<1>2. /\ g.is_close = t.resp.is_close /\ g.status_code = c /\ g.dirty = t.resp.dirty
      /\ g.idx = t.resp.idx /\ g.use_chunked = t.resp.use_chunked
  BY <1>1 DEF StateM, Header
<1>3. u = [t EXCEPT !.resp = g]
  BY <1>1 DEF StateM, WithCode
<1>6. u = [t EXCEPT !.resp.status_code = c]
  BY DEF WithCode
<1> HIDE DEF g, u
<1>4. u.resp = g /\ u.last_fin_idx = t.last_fin_idx
  BY <1>1, <1>3 DEF StateM
<1>5. Placed(s, u) /\ u.p_state = t.p_state /\ u.parsed_len = t.parsed_len
  <2>1. 2 \in {0, 2}
    OBVIOUS
  <2> QED BY <1>1, <1>6, <2>1, Noted
<1> QED BY <1>1, <1>2, <1>4, <1>5 DEF SameTable, Coded, u

LEMMA BegunKept ==
  ASSUME NEW s, NEW t, Kept(s, t), NEW p \in PStates
  PROVE  LET u == Begun(t, p) IN Kept(s, u) /\ Is(u, p, 0)
<1>1. Placed(s, t)
  BY DEF Kept
<1>2. Placed(s, Begun(t, p)) /\ Begun(t, p).p_state = p /\ Begun(t, p).parsed_len = 0 /\ Begun(t, p).resp = t.resp
  BY <1>1, Moved
<1>3. Kept(s, Begun(t, p))
  BY <1>2, KeptOn
<1> QED BY <1>2, <1>3 DEF Is

\* What there is to show of a state in which the head goes on and nothing more was noted.
LEMMA StatusGoesOn ==
  ASSUME NEW r, NEW h, NEW c, HeadRound(r, h, c), NEW u, GoOn(u), Placed(m, u), SameTable(m, u),
         ~u.resp.is_close, c + 1 >= 4 => u.resp.status_code = r.octets[3] /\ r.octets[3] \in Codes,
         NEW e \in LineEnds(r.octets, h), StatusAt(r.octets, e), c + 1 <= e - 2,
         Table(m, r.octets, h, 0, 0),
         \/ c + 1 = 1 /\ Is(u, "VER", 1)
         \/ c + 1 = 2 /\ Is(u, "CODE_OR_TOKEN", 0)
         \/ c + 1 = 3 /\ Is(u, "CODE_OR_TOKEN", 1)
         \/ c + 1 >= 4 /\ Is(u, "REASON_OR_RESOURCE", (c + 1) - 4)
  PROVE  Result(r, h, c, 1)
<1> DEFINE o == r.octets
<1>1. Table(u, o, h, 0, 0)
  BY TableKept
<1>2. InStatus(u, o, h, c + 1)
  <2> DEFINE k == c + 1
  <2>1. \E x \in LineEnds(o, h) : StatusAt(o, x) /\ k <= x - 2
    OBVIOUS
  <2>2. \/ k = 1 /\ Is(u, "VER", 1)
        \/ k = 2 /\ Is(u, "CODE_OR_TOKEN", 0)
        \/ k = 3 /\ Is(u, "CODE_OR_TOKEN", 1)
        \/ k >= 4 /\ Is(u, "REASON_OR_RESOURCE", k - 4)
    OBVIOUS
  <2> HIDE DEF k
  <2>3. InStatus(u, o, h, k)
    BY <1>1, <2>1, <2>2 DEF InStatus
  <2> QED BY <2>3 DEF k
<1>3. e \in Nat /\ e <= h - 2 /\ h \in Nat /\ c \in Nat
  BY HeadRoundFacts, HeadFacts
<1>4. c + 1 < h
  BY <1>3
<1> HIDE DEF o
<1> QED BY <1>2, <1>4, HeadGoesOn DEF o

LEMMA InVersion ==
  ASSUME NEW r, NEW h, NEW c, HeadRound(r, h, c), InStatus(m, r.octets, h, c), c <= 1
  PROVE  Result(r, h, c, 1)
<1> DEFINE o == r.octets
           t == Taken
<1>1. /\ InHeader /\ http_resp_parser /\ Octet = o[c + 1] /\ o[1] = "HTTP/1.1" /\ c \in Nat
  BY HeadRoundFacts DEF HeadRound, ResponseAt
<1>2. PICK e \in LineEnds(o, h) : StatusAt(o, e) /\ c <= e - 2
  BY DEF InStatus
<1>3. /\ Table(m, o, h, 0, 0)
      /\ (c = 0 /\ Is(m, "VER", 0)) \/ (c = 1 /\ Is(m, "VER", 1))
  BY <1>1 DEF InStatus
<1>4. o[1] \notin Separators /\ o[2] = SP /\ 6 <= e /\ e \in Nat
  BY <1>2, HeadRoundFacts, HeadFacts DEF StatusAt
<1>5. /\ Kept(m, t) /\ t.p_state = m.p_state /\ t.parsed_len = m.parsed_len + 1 /\ ~m.resp.is_close
      /\ m \in StateM /\ Behind(m, o, c) /\ Placed(m, t)
  BY HeadRoundFacts
<1>6. CASE c = 0
  <2>1. GoOn(t)
    BY <1>1, <1>4, <1>6, ByOctet DEF OnOther
  <2>2. Is(t, "VER", 1) /\ SameTable(m, t) /\ ~t.resp.is_close
    BY <1>3, <1>5, <1>6 DEF Is, Kept
  <2>3. c + 1 <= e - 2 /\ ~(c + 1 >= 4) /\ c + 1 = 1
    BY <1>4, <1>6
  <2> HIDE DEF t
  <2> QED BY <1>2, <1>3, <1>5, <2>1, <2>2, <2>3, StatusGoesOn
<1>7. CASE c = 1
  <2> DEFINE u == Begun(t, "CODE_OR_TOKEN")
             v == [u EXCEPT !.resp.http_ver = 2]
  <2>1. Space(t)
    BY <1>1, <1>4, <1>7, ByOctet DEF OnSP
  <2>2. t.p_state = "VER" /\ t.parsed_len = 2
    BY <1>3, <1>5, <1>7 DEF Is
  <2>3. FirstOf(t) = o[1]
    <3>1. m.buff[m.buf_idx + 1] = o[c + 1]
      BY <1>1 DEF Octet
    <3>2. 1 \in 1..c + 1 /\ t.parsed_len = c + 2 - 1
      BY <1>7, <2>2
    <3> HIDE DEF t, o
    <3> QED BY <1>1, <1>5, <3>1, <3>2, FirstIs
  <2>4. GoOn(v)
    <3>1. ~(t.parsed_len > VERSION_LEN + 1)
      BY <2>2 DEF VERSION_LEN
    <3>2. GoOn([[t EXCEPT !.p_state = Next_http_state(t.p_state, SP), !.parsed_len = 0] EXCEPT !.resp.http_ver = 2])
      BY <1>1, <2>1, <2>2, <2>3, <3>1, Zenon DEF Space
    <3>3. Next_http_state(t.p_state, SP) = "CODE_OR_TOKEN"
      BY <2>2 DEF Next_http_state, SP
    <3> QED BY <3>2, <3>3 DEF Begun
  <2>5. "CODE_OR_TOKEN" \in PStates
    BY DEF PStates, HeadStates, StatusLine
  <2>6. Kept(m, u) /\ Is(u, "CODE_OR_TOKEN", 0)
    BY <1>5, <2>5, BegunKept
  <2> HIDE DEF u
  <2>7. Kept(m, v) /\ v.p_state = u.p_state /\ v.parsed_len = u.parsed_len
    BY <2>6, VersionNoted
  <2> HIDE DEF v
  <2>8. Placed(m, v) /\ SameTable(m, v) /\ ~v.resp.is_close /\ Is(v, "CODE_OR_TOKEN", 0)
    BY <1>5, <2>6, <2>7 DEF Kept, Is
  <2>9. c + 1 <= e - 2 /\ ~(c + 1 >= 4) /\ c + 1 = 2
    BY <1>4, <1>7
  <2> QED BY <1>2, <1>3, <2>4, <2>8, <2>9, StatusGoesOn
<1> QED BY <1>1, <1>3, <1>6, <1>7

LEMMA InCode ==
  ASSUME NEW r, NEW h, NEW c, HeadRound(r, h, c), InStatus(m, r.octets, h, c), c \in 2..3
  PROVE  Result(r, h, c, 1)
<1> DEFINE o == r.octets
           t == Taken
<1>1. /\ InHeader /\ http_resp_parser /\ Octet = o[c + 1] /\ c \in Nat
  BY HeadRoundFacts DEF HeadRound
<1>2. PICK e \in LineEnds(o, h) : StatusAt(o, e) /\ c <= e - 2
  BY DEF InStatus
<1>3. /\ Table(m, o, h, 0, 0)
      /\ (c = 2 /\ Is(m, "CODE_OR_TOKEN", 0)) \/ (c = 3 /\ Is(m, "CODE_OR_TOKEN", 1))
  BY <1>1 DEF InStatus
<1>4. o[3] \notin Separators /\ o[4] = SP /\ 6 <= e /\ e \in Nat
  BY <1>2, HeadRoundFacts, HeadFacts DEF StatusAt
<1>5. /\ Kept(m, t) /\ t.p_state = m.p_state /\ t.parsed_len = m.parsed_len + 1 /\ ~m.resp.is_close
      /\ m \in StateM /\ Behind(m, o, c) /\ Placed(m, t)
  BY HeadRoundFacts
<1>6. CASE c = 2
  <2>1. GoOn(t)
    BY <1>1, <1>4, <1>6, ByOctet DEF OnOther
  <2>2. Is(t, "CODE_OR_TOKEN", 1) /\ SameTable(m, t) /\ ~t.resp.is_close
    BY <1>3, <1>5, <1>6 DEF Is, Kept
  <2>3. c + 1 <= e - 2 /\ ~(c + 1 >= 4) /\ c + 1 = 3
    BY <1>4, <1>6
  <2> HIDE DEF t
  <2> QED BY <1>2, <1>3, <1>5, <2>1, <2>2, <2>3, StatusGoesOn
<1>7. CASE c = 3
  <2> DEFINE u == Begun(t, "REASON_OR_RESOURCE")
             v == WithCode(u, o[3])
  <2>1. Space(t)
    BY <1>1, <1>4, <1>7, ByOctet DEF OnSP
  <2>2. t.p_state = "CODE_OR_TOKEN" /\ t.parsed_len = 2
    BY <1>3, <1>5, <1>7 DEF Is
  <2>3. FirstOf(t) = o[3]
    <3>1. m.buff[m.buf_idx + 1] = o[c + 1]
      BY <1>1 DEF Octet
    <3>2. 3 \in 1..c + 1 /\ t.parsed_len = c + 2 - 3
      BY <1>7, <2>2
    <3> HIDE DEF t, o
    <3> QED BY <1>1, <1>5, <3>1, <3>2, FirstIs
  <2>4. IF o[3] \in Codes THEN GoOn(v) ELSE Return(t, "NOT_SUPPORT")
    <3>1. ~(t.parsed_len > CODE_LEN + 1)
      BY <2>2 DEF CODE_LEN
    <3>2. IF o[3] \in Codes
            THEN GoOn([[t EXCEPT !.p_state = Next_http_state(t.p_state, SP), !.parsed_len = 0]
                         EXCEPT !.resp.status_code = o[3]])
            ELSE Return(t, "NOT_SUPPORT")
      <4>1. t.p_state # "VER"
        BY <2>2
      <4> QED BY <2>1, <2>2, <2>3, <3>1, <4>1, Zenon DEF Space
    <3>3. Next_http_state(t.p_state, SP) = "REASON_OR_RESOURCE"
      BY <2>2 DEF Next_http_state, SP
    <3> QED BY <3>2, <3>3 DEF Begun, WithCode
  <2>5. CASE o[3] \in Codes
    <3>1. "REASON_OR_RESOURCE" \in PStates
      BY DEF PStates, HeadStates, StatusLine
    <3>2. Kept(m, u) /\ Is(u, "REASON_OR_RESOURCE", 0)
      BY <1>5, <3>1, BegunKept
    <3>3. GoOn(v)
      BY <2>4, <2>5
    <3> DEFINE k == o[3]
    <3>k. k \in Codes
      BY <2>5
    <3> HIDE DEF u, k
    <3>c. Coded(m, WithCode(u, k), k) /\ WithCode(u, k).p_state = u.p_state /\ WithCode(u, k).parsed_len = u.parsed_len
      BY <3>k, <3>2, CodeNoted
    <3>4. /\ Placed(m, v) /\ SameTable(m, v) /\ v.resp.is_close = m.resp.is_close
          /\ v.resp.status_code = o[3] /\ v.p_state = u.p_state /\ v.parsed_len = u.parsed_len
      BY <3>c DEF Coded, k
    <3> HIDE DEF v
    <3>5. Is(v, "REASON_OR_RESOURCE", 0) /\ ~v.resp.is_close
      BY <1>5, <3>2, <3>4 DEF Is
    <3>6. c + 1 <= e - 2 /\ c + 1 >= 4 /\ (c + 1) - 4 = 0
      BY <1>4, <1>7
    <3> QED BY <1>2, <1>3, <2>5, <3>3, <3>4, <3>5, <3>6, StatusGoesOn
  <2>6. CASE o[3] \notin Codes
    <3>1. r.verdict = "NOT_SUPPORT"
      <4>1. Means(r, h)
        BY DEF HeadRound, ResponseAt
      <4>2. o[3] \notin {"301", "404", "500", "204", "200"}
        BY <2>6 DEF Codes
      <4> QED BY <4>1, <4>2 DEF Means
    <3>2. t.buff = m.buff
      BY <1>5 DEF Placed
    <3> HIDE DEF t
    <3> QED BY <2>4, <2>6, <3>1, <3>2 DEF Result
  <2> QED BY <2>5, <2>6
<1> QED BY <1>1, <1>6, <1>7

\* A state at the end of a line.
LEMMA LineGoesToEnd ==
  ASSUME NEW r, NEW h, NEW c, HeadRound(r, h, c), c >= 4, NEW u, GoOn(u), Placed(m, u), u.p_state = "HEADER",
         u.resp.is_close = m.resp.is_close, u.resp.status_code = m.resp.status_code,
         NEW e \in LineEnds(r.octets, h), e = c + 2, Table(u, r.octets, h, e, e)
  PROVE  Result(r, h, c, 1)
<1> DEFINE o == r.octets
<1>1. /\ h \in Nat /\ c \in Nat /\ ~m.resp.is_close /\ m.resp.status_code = o[3] /\ o[3] \in Codes
  BY HeadRoundFacts
<1>2. e \in Nat /\ e <= h - 2
  BY HeadRoundFacts, HeadFacts
<1>3. (c + 1) + 1 = e /\ c + 1 < h /\ c + 1 >= 4
  BY <1>1, <1>2
<1>4. AtLineEnd(u, o, h, c + 1)
  BY <1>3 DEF AtLineEnd
<1>5. InFields(u, o, h, c + 1)
  BY <1>4 DEF InFields
<1> HIDE DEF o
<1> QED BY <1>1, <1>3, <1>5, HeadGoesOn DEF o

LEMMA InReason ==
  ASSUME NEW r, NEW h, NEW c, HeadRound(r, h, c), InStatus(m, r.octets, h, c), c >= 4
  PROVE  Result(r, h, c, 1)
<1> DEFINE o == r.octets
           t == Taken
<1>1. /\ InHeader /\ http_resp_parser /\ Octet = o[c + 1] /\ c \in Nat /\ o \in Seq(Octets) /\ HeadAt(o, h)
  BY HeadRoundFacts DEF HeadRound
<1>2. PICK e \in LineEnds(o, h) : StatusAt(o, e) /\ c <= e - 2
  BY DEF InStatus
<1>3. Table(m, o, h, 0, 0) /\ Is(m, "REASON_OR_RESOURCE", c - 4)
  BY <1>1 DEF InStatus
<1>4. /\ 6 <= e /\ e \in Nat /\ o[e - 1] = CR /\ LineAt(o, 0, e)
      /\ \A j \in 5 .. e - 2 : o[j] \notin {CR, LF, COLON}
  <2>1. StatusAt(o, e) /\ e \in Nat
    BY <1>2, HeadRoundFacts, HeadFacts
  <2> HIDE DEF o
  <2>2. LineAt(o, 0, e) /\ 6 <= e /\ \A j \in 5 .. e - 2 : o[j] # COLON
    BY <2>1 DEF StatusAt
  <2>3. o[e - 1] = CR /\ \A j \in 0 + 1 .. e - 2 : o[j] \notin {CR, LF}
    BY <2>2 DEF LineAt
  <2> QED BY <2>1, <2>2, <2>3
<1>5. /\ Kept(m, t) /\ t.p_state = m.p_state /\ t.parsed_len = m.parsed_len + 1 /\ ~m.resp.is_close
      /\ m \in StateM /\ Behind(m, o, c) /\ Placed(m, t) /\ m.resp.status_code = o[3] /\ o[3] \in Codes
  BY HeadRoundFacts
<1>6. Is(t, "REASON_OR_RESOURCE", (c + 1) - 4) /\ SameTable(m, t) /\ ~t.resp.is_close
      /\ t.resp.status_code = o[3]
  BY <1>1, <1>3, <1>5 DEF Is, Kept
<1>7. CASE c < e - 2
  <2>1. Octet \notin {CR, LF, COLON}
    <3>1. c + 1 \in 5 .. e - 2
      BY <1>1, <1>4, <1>7
    <3> QED BY <1>1, <1>4, <3>1
  <2>2. GoOn(t)
    <3>1. CASE Octet = SP
      <4>1. Space(t)
        BY <1>1, <3>1, ByOctet DEF OnSP
      <4>2. t.p_state \notin {"VER", "CODE_OR_TOKEN", "CHUNKED"}
        BY <1>6 DEF Is
      <4> QED BY <4>1, <4>2 DEF Space
    <3>2. CASE Octet # SP
      BY <1>1, <2>1, <3>2, ByOctet DEF OnOther, Separators
    <3> QED BY <3>1, <3>2
  <2>3. c + 1 <= e - 2 /\ c + 1 >= 4
    BY <1>1, <1>4, <1>7
  <2> HIDE DEF t
  <2> QED BY <1>2, <1>3, <1>5, <1>6, <2>2, <2>3, StatusGoesOn
<1>8. CASE c = e - 2
  <2>1. Octet = CR
    <3>1. c + 1 = e - 1
      BY <1>4, <1>8
    <3> QED BY <1>1, <1>4, <3>1
  <2>2. OnCR
    BY <1>1, <2>1, ByOctet
  <2>3. t.p_state = "REASON_OR_RESOURCE" /\ t.p_state \in StatusLine /\ t.p_state \notin HeaderField
    BY <1>6 DEF Is, StatusLine, HeaderField
  <2>4. Next_http_state(t.p_state, CR) = "HEADER"
    BY <2>3 DEF Next_http_state, CR, SP
  <2>5. \/ GoOn(Begun(t, "HEADER")) \/ GoOn([t EXCEPT !.p_state = "HEADER"])
    BY <2>2, <2>3, <2>4, Zenon DEF OnCR, Begun
  <2>6. "HEADER" \in PStates
    BY DEF PStates, HeadStates, StatusLine
  <2>7. PICK u : GoOn(u) /\ Kept(m, u) /\ u.p_state = "HEADER"
    <3>1. Kept(m, Begun(t, "HEADER")) /\ Begun(t, "HEADER").p_state = "HEADER"
      BY <1>5, <2>6, BegunKept DEF Is
    <3> DEFINE w == [t EXCEPT !.p_state = "HEADER"]
    <3>2. Placed(m, w) /\ w.p_state = "HEADER" /\ w.resp = t.resp
      BY <1>5, <2>6, MovedOn
    <3> HIDE DEF w
    <3>3. Kept(m, w)
      BY <1>5, <3>2, KeptOn
    <3> QED BY <2>5, <3>1, <3>2, <3>3 DEF w
  <2>8. Table(u, o, h, e, e)
    <3>1. Table(u, o, h, 0, 0)
      BY <1>3, <2>7, TableKept DEF Kept
    <3> HIDE DEF o
    <3> QED BY <1>1, <1>4, <3>1, TableAtFirst
  <2>9. Placed(m, u) /\ u.resp.is_close = m.resp.is_close /\ u.resp.status_code = m.resp.status_code
    BY <2>7 DEF Kept
  <2>10. e = c + 2
    BY <1>1, <1>4, <1>8
  <2> QED BY <1>2, <2>7, <2>8, <2>9, <2>10, LineGoesToEnd
<1>9. c < e - 2 \/ c = e - 2
  BY <1>1, <1>2, <1>4
<1> QED BY <1>7, <1>8, <1>9

LEMMA EndOfLine ==
  ASSUME NEW r, NEW h, NEW c, HeadRound(r, h, c), AtLineEnd(m, r.octets, h, c), c >= 4
  PROVE  Result(r, h, c, 1)
<1> DEFINE o == r.octets
           t == Taken
           u == Begun(t, "FIELD_NAME")
<1>1. /\ InHeader /\ http_resp_parser /\ Octet = o[c + 1] /\ c \in Nat /\ h \in Nat /\ ~m.resp.is_close
      /\ Kept(m, t) /\ t.p_state = m.p_state /\ m.resp.status_code = o[3] /\ o[3] \in Codes
  BY HeadRoundFacts DEF HeadRound
<1>2. c + 1 \in LineEnds(o, h) /\ m.p_state = "HEADER" /\ Table(m, o, h, c + 1, c + 1)
  BY DEF AtLineEnd
<1>3. o[c + 1] = LF /\ c + 1 <= h - 2
  BY <1>2, HeadRoundFacts, HeadFacts
<1>4. GoOn(u)
  <2>1. OnLF
    BY <1>1, <1>3, ByOctet
  <2>2. t.p_state = "HEADER"
    BY <1>1, <1>2
  <2> QED BY <2>1, <2>2, Zenon DEF OnLF, Begun
<1>5. Kept(m, u) /\ Is(u, "FIELD_NAME", 0)
  <2>1. "FIELD_NAME" \in PStates
    BY DEF PStates, HeadStates, HeaderField
  <2> QED BY <1>1, <2>1, BegunKept
<1> HIDE DEF u, o
<1>6. Table(u, o, h, c + 1, c + 1) /\ Placed(m, u) /\ ~u.resp.is_close /\ u.resp.status_code = o[3]
  BY <1>1, <1>2, <1>5, TableKept DEF Kept
<1>7. AtLineStart(u, o, h, c + 1)
  BY <1>2, <1>5, <1>6 DEF AtLineStart
<1>8. InFields(u, o, h, c + 1) /\ c + 1 < h /\ c + 1 >= 4
  BY <1>1, <1>3, <1>7 DEF InFields
<1> QED BY <1>1, <1>4, <1>6, <1>8, HeadGoesOn DEF o

LEMMA StartOfLine ==
  ASSUME NEW r, NEW h, NEW c, HeadRound(r, h, c), AtLineStart(m, r.octets, h, c), c >= 4
  PROVE  Result(r, h, c, 1)
<1> DEFINE o == r.octets
           t == Taken
<1>1. /\ InHeader /\ http_resp_parser /\ Octet = o[c + 1] /\ c \in Nat /\ h \in Nat /\ ~m.resp.is_close
      /\ Kept(m, t) /\ t.p_state = m.p_state /\ t.parsed_len = m.parsed_len + 1
      /\ m.resp.status_code = o[3] /\ o[3] \in Codes /\ o \in Seq(Octets) /\ HeadAt(o, h)
  BY HeadRoundFacts DEF HeadRound
<1>2. c \in LineEnds(o, h) /\ Is(m, "FIELD_NAME", 0) /\ Table(m, o, h, c, c)
  BY DEF AtLineStart
<1>3. Is(t, "FIELD_NAME", 1)
  BY <1>1, <1>2 DEF Is
<1>4. Table(t, o, h, c, c) /\ Placed(m, t) /\ ~t.resp.is_close /\ t.resp.status_code = o[3]
  BY <1>1, <1>2, TableKept DEF Kept
<1>5. c = h - 2 \/ c \in Fields(o, h)
  BY <1>1, <1>2, HeadFacts
<1>6. CASE c = h - 2
  <2>1. Octet = CR
    <3>1. c + 1 = h - 1
      BY <1>1, <1>6
    <3> QED BY <1>1, <3>1, HeadFacts
  <2>2. GoOn(t)
    <3>1. OnCR
      BY <1>1, <2>1, ByOctet
    <3>2. ~(t.parsed_len > 1) /\ t.p_state # "REASON_OR_RESOURCE"
      BY <1>3 DEF Is
    <3> QED BY <3>1, <3>2, Zenon DEF OnCR
  <2> HIDE DEF t, o
  <2>3. c + 1 = h - 1 /\ c + 1 < h /\ c + 1 >= 4 /\ h - 2 = c
    BY <1>1, <1>6
  <2>4. AtHeadEnd(t, o, h, c + 1)
    BY <1>3, <1>4, <2>3 DEF AtHeadEnd
  <2>5. InFields(t, o, h, c + 1)
    BY <2>4 DEF InFields
  <2> QED BY <1>1, <1>4, <2>2, <2>3, <2>5, HeadGoesOn DEF o
<1>7. CASE c \in Fields(o, h)
  <2>1. Octet \notin Separators
    <3>1. PICK e \in LineEnds(o, h) : FieldAt(o, c, e)
      BY <1>1, <1>7, FieldEnds
    <3> QED BY <1>1, <3>1 DEF FieldAt
  <2>2. GoOn(t)
    BY <1>1, <2>1, ByOctet DEF OnOther
  <2> HIDE DEF t, o
  <2>3. (c + 1) - 1 = c /\ c + 1 < h /\ c + 1 >= 4
    BY <1>1, <1>7, HeadFacts
  <2>4. BehindName(t, o, h, c + 1)
    BY <1>3, <1>4, <1>7, <2>3 DEF BehindName
  <2>5. InFields(t, o, h, c + 1)
    BY <2>4 DEF InFields
  <2> QED BY <1>1, <1>4, <2>2, <2>3, <2>5, HeadGoesOn DEF o
<1> QED BY <1>5, <1>6, <1>7

\* The name behind the parser is noted: the value of field n follows.
WithField(t, n) == [t EXCEPT !.resp.curr_bit = IF n \in Names THEN n ELSE "none",
                             !.resp.dirty = @ \cup ({n} \cap Names),
                             !.p_state = "FIELD_VALUE", !.parsed_len = 0]

LEMMA NameNoted ==
  ASSUME NEW s, NEW t, Kept(s, t), NEW n
  PROVE  LET u == WithField(t, n)
         IN  /\ Further(s, u) /\ u.last_fin_idx = s.last_fin_idx
             /\ u.resp.is_close = s.resp.is_close /\ u.resp.status_code = s.resp.status_code
             /\ u.resp.dirty = s.resp.dirty \cup ({n} \cap Names) /\ u.resp.idx = s.resp.idx
             /\ u.resp.use_chunked = s.resp.use_chunked
             /\ u.resp.curr_bit = IF n \in Names THEN n ELSE "none"
             /\ Is(u, "FIELD_VALUE", 0)
<1> DEFINE b == IF n \in Names THEN n ELSE "none"
           g == [t.resp EXCEPT !.curr_bit = b, !.dirty = @ \cup ({n} \cap Names)]
           u == [t EXCEPT !.resp = g, !.p_state = "FIELD_VALUE", !.parsed_len = 0]
<1>1. t \in StateM /\ Placed(s, t) /\ SameTable(s, t) /\ t.resp.is_close = s.resp.is_close
      /\ t.resp.status_code = s.resp.status_code
  BY DEF Kept, Placed
<1>2. WithField(t, n) = u
  BY <1>1 DEF WithField, StateM
<1> HIDE DEF b
<1>3. /\ g.is_close = t.resp.is_close /\ g.status_code = t.resp.status_code /\ g.idx = t.resp.idx
      /\ g.use_chunked = t.resp.use_chunked /\ g.curr_bit = b /\ g.msg_hdr_len = t.resp.msg_hdr_len
      /\ g.dirty = t.resp.dirty \cup ({n} \cap Names)
  BY <1>1 DEF StateM, Header
<1> HIDE DEF g
<1>4. /\ u.buff = t.buff /\ u.buf_idx = t.buf_idx /\ u.last_fin_idx = t.last_fin_idx /\ u.resp = g
      /\ u.length = t.length /\ u.use_content_length = t.use_content_length
      /\ u.use_chunked = t.use_chunked /\ u.curr_chunked_size = t.curr_chunked_size
      /\ u.p_state = "FIELD_VALUE" /\ u.parsed_len = 0
  BY <1>1 DEF StateM
<1> HIDE DEF u
<1> QED BY <1>1, <1>2, <1>3, <1>4 DEF Placed, SameTable, Further, Is, b

LEMMA EndOfName ==
  ASSUME NEW r, NEW h, NEW c, HeadRound(r, h, c), BehindName(m, r.octets, h, c), c >= 4
  PROVE  Result(r, h, c, 1)
<1> DEFINE o == r.octets
           t == Taken
           n == FirstOf(t)
           u == WithField(t, n)
<1>1. /\ InHeader /\ http_resp_parser /\ Octet = o[c + 1] /\ c \in Nat /\ h \in Nat /\ ~m.resp.is_close
      /\ Kept(m, t) /\ t.p_state = m.p_state /\ t.parsed_len = m.parsed_len + 1
      /\ m.resp.status_code = o[3] /\ o[3] \in Codes /\ o \in Seq(Octets) /\ HeadAt(o, h)
      /\ m \in StateM /\ Behind(m, o, c) /\ Placed(m, t)
  BY HeadRoundFacts DEF HeadRound
<1>2. c - 1 \in Fields(o, h) /\ Is(m, "FIELD_NAME", 1) /\ Table(m, o, h, c - 1, c - 1)
  BY DEF BehindName
<1>3. PICK e \in LineEnds(o, h) : FieldAt(o, c - 1, e)
  BY <1>1, <1>2, FieldEnds
<1>4. /\ (c - 1) + 6 <= e /\ e \in Nat /\ e <= h - 2 /\ o[c + 1] = COLON
      /\ c - 1 \in Nat /\ (c - 1) + 1 = c /\ (c - 1) + 2 = c + 1
  <2>1. e \in Nat /\ e <= h - 2 /\ c - 1 \in Nat
    BY <1>1, <1>2, HeadFacts
  <2>2. (c - 1) + 6 <= e /\ o[(c - 1) + 2] = COLON
    BY <1>3 DEF FieldAt
  <2>3. (c - 1) + 2 = c + 1 /\ (c - 1) + 1 = c
    BY <1>1
  <2> QED BY <2>1, <2>2, <2>3
<1>5. n = o[c]
  <2>1. m.buff[m.buf_idx + 1] = o[c + 1]
    BY <1>1 DEF Octet
  <2>2. c \in 1..c + 1 /\ t.parsed_len = c + 2 - c
    BY <1>1, <1>2, <1>4 DEF Is
  <2> HIDE DEF t, o
  <2> QED BY <1>1, <2>1, <2>2, FirstIs
<1>6. GoOn(u)
  <2>1. OnColon
    BY <1>1, <1>4, ByOctet
  <2>2. t.p_state = "FIELD_NAME"
    BY <1>1, <1>2 DEF Is
  <2>3. GoOn([WithName(t) EXCEPT !.p_state = "FIELD_VALUE", !.parsed_len = 0])
    BY <2>1, <2>2, Zenon DEF OnColon
  <2>4. [WithName(t) EXCEPT !.p_state = "FIELD_VALUE", !.parsed_len = 0] = u
    BY DEF WithName, WithField
  <2> QED BY <2>3, <2>4
<1> HIDE DEF t, n, u
<1>7. /\ Further(m, u) /\ u.last_fin_idx = m.last_fin_idx
      /\ u.resp.is_close = m.resp.is_close /\ u.resp.status_code = m.resp.status_code
      /\ u.resp.dirty = m.resp.dirty \cup ({n} \cap Names) /\ u.resp.idx = m.resp.idx
      /\ u.resp.use_chunked = m.resp.use_chunked
      /\ u.resp.curr_bit = IF n \in Names THEN n ELSE "none"
      /\ Is(u, "FIELD_VALUE", 0)
  BY <1>1, NameNoted DEF u
<1> HIDE DEF o
<1>8. Table(u, o, h, (c - 1) + 1, c - 1)
  <2> DEFINE d == c - 1
  <2>1. d \in Fields(o, h) /\ Table(m, o, h, d, d)
    BY <1>2
  <2>2. u.resp.dirty = m.resp.dirty \cup ({o[d + 1]} \cap Names)
    BY <1>4, <1>5, <1>7
  <2> HIDE DEF d
  <2>3. Table(u, o, h, d + 1, d)
    BY <1>1, <1>7, <2>1, <2>2, TableOfName
  <2> QED BY <2>3 DEF d
<1>9. InFieldValue(u, o, h, c + 1)
  <2> DEFINE d == c - 1
             k == c + 1
  <2>1. d \in Fields(o, h) /\ FieldAt(o, d, e) /\ Table(u, o, h, d + 1, d)
    BY <1>2, <1>3, <1>8
  <2>2. k \in d + 2 .. e - 2 /\ k - d - 2 = 0
    BY <1>1, <1>4
  <2>3. u.resp.curr_bit = IF o[d + 1] \in Names THEN o[d + 1] ELSE "none"
    BY <1>4, <1>5, <1>7
  <2>4. Is(u, "FIELD_VALUE", k - d - 2)
    BY <1>7, <2>2
  <2> HIDE DEF d, k
  <2>5. InFieldValue(u, o, h, k)
    BY <2>1, <2>2, <2>3, <2>4 DEF InFieldValue
  <2> QED BY <2>5 DEF k
<1>10. InFields(u, o, h, c + 1) /\ c + 1 < h /\ c + 1 >= 4
  BY <1>1, <1>4, <1>9 DEF InFields
<1> QED BY <1>1, <1>6, <1>7, <1>10, HeadGoesFurther DEF o

LEMMA WithinValue ==
  ASSUME NEW r, NEW h, NEW c, HeadRound(r, h, c), InFieldValue(m, r.octets, h, c), c >= 4
  PROVE  Result(r, h, c, 1)
<1> DEFINE o == r.octets
           t == Taken
<1>1. /\ InHeader /\ http_resp_parser /\ Octet = o[c + 1] /\ c \in Nat /\ h \in Nat /\ ~m.resp.is_close
      /\ Kept(m, t) /\ t.p_state = m.p_state /\ t.parsed_len = m.parsed_len + 1
      /\ m.resp.status_code = o[3] /\ o[3] \in Codes /\ o \in Seq(Octets) /\ HeadAt(o, h)
      /\ m \in StateM /\ Ordered(m) /\ Behind(m, o, c) /\ Placed(m, t)
  BY HeadRoundFacts DEF HeadRound
<1>2. PICK d \in Fields(o, h), e \in LineEnds(o, h) :
        /\ FieldAt(o, d, e) /\ c \in d + 2 .. e - 2 /\ Is(m, "FIELD_VALUE", c - d - 2)
        /\ m.resp.curr_bit = IF o[d + 1] \in Names THEN o[d + 1] ELSE "none"
        /\ Table(m, o, h, d + 1, d)
  BY DEF InFieldValue
<1>3. /\ d \in Nat /\ e \in Nat /\ e <= h - 2 /\ d + 6 <= e /\ o[d + 3] = SP /\ o[e - 1] = CR
      /\ \A j \in d + 1 .. e - 2 : o[j] \notin {CR, LF}
  <2>1. d \in Nat /\ e \in Nat /\ e <= h - 2
    BY <1>1, HeadFacts
  <2>2. d + 6 <= e /\ o[d + 3] = SP /\ LineAt(o, d, e)
    BY <1>2 DEF FieldAt
  <2>3. o[e - 1] = CR /\ \A j \in d + 1 .. e - 2 : o[j] \notin {CR, LF}
    BY <2>2 DEF LineAt
  <2> QED BY <2>1, <2>2, <2>3
<1>4. d + 2 <= c /\ c <= e - 2
  <2>1. c \in d + 2 .. e - 2
    BY <1>2
  <2> QED BY <1>1, <1>3, <2>1
<1>5. Is(t, "FIELD_VALUE", (c + 1) - d - 2)
  BY <1>1, <1>2, <1>3 DEF Is
<1>6. CASE c < e - 2
  <2>1. Octet \notin {CR, LF}
    <3>1. c + 1 \in d + 1 .. e - 2
      BY <1>1, <1>4, <1>3, <1>6
    <3> QED BY <1>1, <1>3, <3>1
  <2>2. t.p_state = "FIELD_VALUE" /\ t \in StateM
    BY <1>1, <1>5 DEF Is, Placed
  <2>3. PICK u : GoOn(u) /\ Kept(m, u) /\ Is(u, "FIELD_VALUE", (c + 1) - d - 2)
    <3>1. CASE Octet = SP
      <4>1. Space(t)
        BY <1>1, <3>1, ByOctet DEF OnSP
      <4>2. t.p_state \notin {"VER", "CODE_OR_TOKEN", "CHUNKED"}
        BY <2>2
      <4>3. GoOn(t)
        BY <4>1, <4>2 DEF Space
      <4> QED BY <1>1, <1>5, <4>3
    <3>2. CASE Octet = COLON
      <4> DEFINE w == [t EXCEPT !.p_state = "FIELD_VALUE"]
      <4>1. OnColon
        BY <1>1, <3>2, ByOctet
      <4>2. Next_http_state(t.p_state, COLON) = "FIELD_VALUE"
        BY <2>2 DEF Next_http_state, COLON, CR
      <4>3. Space(w)
        BY <2>2, <4>1, <4>2 DEF OnColon
      <4>4. "FIELD_VALUE" \in PStates
        BY DEF PStates, HeadStates, HeaderField
      <4>5. Placed(m, w) /\ w.p_state = "FIELD_VALUE" /\ w.parsed_len = t.parsed_len /\ w.resp = t.resp
        BY <1>1, <4>4, MovedOn
      <4> HIDE DEF w
      <4>6. GoOn(w)
        <5>1. w.p_state \notin {"VER", "CODE_OR_TOKEN", "CHUNKED"}
          BY <4>5
        <5> QED BY <4>3, <5>1 DEF Space
      <4>7. Kept(m, w)
        BY <1>1, <4>5, KeptOn
      <4> QED BY <1>5, <4>5, <4>6, <4>7 DEF Is
    <3>3. CASE Octet \notin {SP, COLON}
      <4>1. GoOn(t)
        BY <1>1, <2>1, <3>3, ByOctet DEF OnOther, Separators
      <4> QED BY <1>1, <1>5, <4>1
    <3> QED BY <3>1, <3>2, <3>3
  <2> HIDE DEF t, o
  <2>4. /\ Placed(m, u) /\ Table(u, o, h, d + 1, d) /\ ~u.resp.is_close /\ u.resp.status_code = o[3]
        /\ u.resp.curr_bit = m.resp.curr_bit
    BY <1>1, <1>2, <2>3, TableKept DEF Kept, Placed, SameFields
  <2>5. InFieldValue(u, o, h, c + 1)
    <3> DEFINE k == c + 1
    <3>1. k \in d + 2 .. e - 2 /\ Is(u, "FIELD_VALUE", k - d - 2)
      BY <1>1, <1>4, <1>3, <1>6, <2>3
    <3> HIDE DEF k
    <3>2. InFieldValue(u, o, h, k)
      BY <1>2, <2>4, <3>1 DEF InFieldValue
    <3> QED BY <3>2 DEF k
  <2>6. InFields(u, o, h, c + 1) /\ c + 1 < h /\ c + 1 >= 4
    BY <1>1, <1>3, <1>6, <2>5 DEF InFields
  <2> QED BY <1>1, <2>3, <2>4, <2>6, HeadGoesOn DEF o
<1>7. CASE c = e - 2
  <2> DEFINE v == WithValue(t)
             u == Begun(v, "HEADER")
  <2>1. Octet = CR
    <3>1. c + 1 = e - 1
      BY <1>3, <1>7
    <3> QED BY <1>1, <1>3, <3>1
  <2>2. t.p_state = "FIELD_VALUE" /\ t.parsed_len > 1 /\ t.parsed_len = (c + 1) - d - 2
    BY <1>3, <1>5, <1>7 DEF Is
  <2>3. GoOn(u)
    <3>1. OnCR
      BY <1>1, <2>1, ByOctet
    <3>2. t.p_state \in HeaderField /\ t.p_state \notin StatusLine
      BY <2>2 DEF HeaderField, StatusLine
    <3>3. Next_http_state(t.p_state, CR) = "HEADER"
      BY <2>2 DEF Next_http_state, CR
    <3> QED BY <2>2, <3>1, <3>2, <3>3, Zenon DEF OnCR, Begun
  <2>4. /\ t \in StateM /\ t.buff = m.buff /\ t.buf_idx = m.buf_idx + 1 /\ t.last_fin_idx = m.last_fin_idx
        /\ SameFields(m, t) /\ SameTable(m, t) /\ t.resp.is_close = m.resp.is_close
        /\ t.resp.status_code = m.resp.status_code /\ t.resp.msg_hdr_len = m.resp.msg_hdr_len + 1
    BY <1>1 DEF Kept, Placed
  <2>5. m.last_fin_idx \in Nat /\ m.buf_idx = m.last_fin_idx + c /\ m.buf_idx \in Nat
    BY <1>1 DEF StateM, Behind
  <2>6. Behind(t, o, c + 1) /\ Ordered(t)
    <3>1. m.buff[m.buf_idx + 1] = o[c + 1]
      BY <1>1 DEF Octet
    <3>2. m.buf_idx + 1 <= Len(m.buff)
      BY <1>1, TakenFacts DEF HeadRound
    <3>3. Ordered(t)
      BY <2>4, <2>5, <3>2, <1>1 DEF Ordered
    <3> HIDE DEF t, o
    <3> QED BY <1>1, <2>4, <3>1, <3>3, BehindOn
  <2>7. t.buf_idx - t.parsed_len = t.last_fin_idx + d + 2
    BY <1>1, <1>3, <2>2, <2>4, <2>5
  <2>8. Table(v, o, h, e, e)
    <3>1. Table(t, o, h, d + 1, d)
      BY <1>2, <2>4, TableKept
    <3>2. t.resp.curr_bit = IF o[d + 1] \in Names THEN o[d + 1] ELSE "none"
      BY <1>2, <2>4 DEF SameFields
    <3>3. c + 1 \in Nat /\ d + 2 <= c + 1
      <4>1. c \in Nat /\ d \in Nat /\ d + 2 <= c
        BY <1>1, <1>4, <1>3
      <4> QED BY <4>1
    <3> HIDE DEF t, o
    <3> QED BY <1>1, <1>2, <2>4, <2>6, <2>7, <3>1, <3>2, <3>3, TableOfValue
  <2>9. /\ v \in StateM /\ v.buff = t.buff /\ v.buf_idx = t.buf_idx
        /\ v.last_fin_idx = t.last_fin_idx /\ v.length = t.length
        /\ v.use_content_length = t.use_content_length /\ v.use_chunked = t.use_chunked
        /\ v.curr_chunked_size = t.curr_chunked_size /\ v.resp.msg_hdr_len = t.resp.msg_hdr_len
        /\ v.resp.is_close = t.resp.is_close /\ v.resp.status_code = t.resp.status_code
    BY <2>4, ValueNoted, ValueNotedHead
  <2> HIDE DEF v
  <2>10. /\ u.buff = v.buff /\ u.buf_idx = v.buf_idx
         /\ u.last_fin_idx = v.last_fin_idx /\ u.length = v.length
         /\ u.use_content_length = v.use_content_length /\ u.use_chunked = v.use_chunked
         /\ u.curr_chunked_size = v.curr_chunked_size /\ u.resp = v.resp /\ u.p_state = "HEADER"
    BY <2>9 DEF Begun, StateM
  <2> HIDE DEF u
  <2>11. Further(m, u)
    BY <1>1, <2>4, <2>9, <2>10 DEF Further, Placed
  <2> HIDE DEF o
  <2>12. Table(u, o, h, e, e)
    BY <2>8, <2>10, TableKept DEF SameTable
  <2>13. (c + 1) + 1 = e /\ c + 1 < h /\ c + 1 >= 4
    <3>1. c \in Nat /\ e \in Nat /\ h \in Nat
      BY <1>1, <1>3
    <3>2. e <= h - 2
      BY <1>3
    <3>3. c = e - 2
      BY <1>7
    <3> QED BY <3>1, <3>2, <3>3
  <2>14. AtLineEnd(u, o, h, c + 1)
    BY <1>2, <2>10, <2>12, <2>13 DEF AtLineEnd
  <2>15. InFields(u, o, h, c + 1)
    BY <2>14 DEF InFields
  <2>16. ~u.resp.is_close /\ u.resp.status_code = o[3]
    BY <1>1, <2>4, <2>9, <2>10
  <2> QED BY <1>1, <2>3, <2>11, <2>13, <2>15, <2>16, HeadGoesFurther DEF o
<1>8. c < e - 2 \/ c = e - 2
  BY <1>1, <1>2, <1>3
<1> QED BY <1>6, <1>7, <1>8

\* The state in which the body begins.
Closed(t) == [WithClose([t EXCEPT !.p_state = "MSG_BODY"]) EXCEPT !.parsed_len = 0]

LEMMA CloseNoted ==
  ASSUME NEW t \in StateM
  PROVE  LET y == Closed(t)
         IN  /\ y \in StateM /\ y.buff = t.buff /\ y.buf_idx = t.buf_idx /\ y.last_fin_idx = t.last_fin_idx
             /\ y.length = t.length /\ y.use_content_length = t.use_content_length
             /\ y.use_chunked = t.use_chunked /\ y.curr_chunked_size = t.curr_chunked_size
             /\ y.resp.msg_hdr_len = t.resp.msg_hdr_len /\ y.resp.dirty = t.resp.dirty
             /\ y.resp.idx = t.resp.idx /\ y.resp.use_chunked = t.resp.use_chunked
             /\ y.resp.is_close = ("Connection" \in t.resp.dirty /\ ValueOf(t, "Connection") = "close")
             /\ Is(y, "MSG_BODY", 0)
<1> DEFINE x == [t EXCEPT !.p_state = "MSG_BODY"]
           k == "Connection" \in t.resp.dirty /\ ValueOf(t, "Connection") = "close"
           g == [t.resp EXCEPT !.is_close = k]
           y == [t EXCEPT !.p_state = "MSG_BODY", !.resp = g, !.parsed_len = 0]
<1>1. x.resp = t.resp /\ x.buff = t.buff
  BY DEF StateM
<1>2. ("Connection" \in x.resp.dirty /\ ValueOf(x, "Connection") = "close") = k
  BY <1>1 DEF ValueOf
<1>3. Closed(t) = y
  <2>1. WithClose(x) = [x EXCEPT !.resp.is_close = k]
    BY <1>2 DEF WithClose
  <2> HIDE DEF k
  <2>2. [[x EXCEPT !.resp.is_close = k] EXCEPT !.parsed_len = 0] = y
    BY DEF StateM
  <2> QED BY <2>1, <2>2 DEF Closed
<1>4. k \in BOOLEAN
  OBVIOUS
<1> HIDE DEF k
<1>5. /\ g \in Header /\ g.msg_hdr_len = t.resp.msg_hdr_len /\ g.dirty = t.resp.dirty
      /\ g.idx = t.resp.idx /\ g.use_chunked = t.resp.use_chunked /\ g.is_close = k
  BY <1>4 DEF StateM, Header
<1> HIDE DEF g
<1>6. /\ y \in StateM /\ y.buff = t.buff /\ y.buf_idx = t.buf_idx /\ y.last_fin_idx = t.last_fin_idx
      /\ y.length = t.length /\ y.use_content_length = t.use_content_length
      /\ y.use_chunked = t.use_chunked /\ y.curr_chunked_size = t.curr_chunked_size
      /\ y.resp = g /\ y.p_state = "MSG_BODY" /\ y.parsed_len = 0
  BY <1>5 DEF StateM, Header
<1> HIDE DEF y
<1> QED BY <1>3, <1>5, <1>6 DEF Is, k

\* Behind the head a chunked body begins.
LEMMA ChunksBegin ==
  ASSUME NEW t, NEW o \in Seq(Octets), NEW h, HeadAt(o, h), ChunkedBody(o, h), Behind(t, o, h),
         Table(t, o, h, h - 2, h - 2), Idle(t), ~t.use_content_length, Is(t, "CHUNKED", 0)
  PROVE  Chunks(t, o, h, h) /\ h < Len(o)
<1>1. PICK B \in SUBSET SizeLines(o, h) : h \in B /\ ChunksAt(o, B)
  BY DEF ChunkedBody
<1>2. h \in Nat /\ Len(o) \in Nat
  BY HeadFacts
<1>3. h < Len(o)
  BY <1>1, <1>2 DEF SizeLines
<1>4. t.resp.use_chunked
  <2>1. PICK d \in FieldsOf(o, h, "Transfer-Encoding"), y \in Fields(o, h) :
               o[d + 4] = "chunked" /\ d < y /\ o[y + 1] \in Names
    BY DEF ChunkedBody
  <2>2. y < h - 2
    BY HeadFacts
  <2> QED BY <2>1, <2>2 DEF Table
<1>5. InSize(t, h, h)
  BY <1>2 DEF InSize, Is
<1> QED BY <1>1, <1>3, <1>4, <1>5 DEF Chunks

LEMMA EndOfHead ==
  ASSUME NEW r, NEW h, NEW c, HeadRound(r, h, c), AtHeadEnd(m, r.octets, h, c), c >= 4
  PROVE  Result(r, h, c, 1)
<1> DEFINE o == r.octets
           t == Taken
           x == [t EXCEPT !.p_state = "MSG_BODY"]
           y == Closed(t)
<1>1. /\ InHeader /\ http_resp_parser /\ Octet = o[c + 1] /\ c \in Nat /\ h \in Nat /\ ~m.resp.is_close
      /\ Kept(m, t) /\ t.p_state = m.p_state /\ h <= Len(o) /\ Len(o) \in Nat
      /\ m.resp.status_code = o[3] /\ o[3] \in Codes /\ o \in Seq(Octets) /\ HeadAt(o, h)
      /\ m \in StateM /\ Ordered(m) /\ Behind(m, o, c) /\ Placed(m, t) /\ m.resp.msg_hdr_len = c
      /\ NoBody(m) /\ Means(r, h) /\ m.last_fin_idx \in Nat /\ m.buf_idx \in Nat
  BY HeadRoundFacts DEF HeadRound, ResponseAt
<1>2. c = h - 1 /\ Is(m, "FIELD_NAME", 1) /\ Table(m, o, h, h - 2, h - 2)
  BY DEF AtHeadEnd
<1>3. c + 1 = h
  BY <1>1, <1>2
<1>4. HeadEnds(x)
  <2>1. Octet = LF
    BY <1>1, <1>3, HeadFacts
  <2>2. OnLF
    BY <1>1, <2>1, ByOctet
  <2>3. t.p_state = "FIELD_NAME"
    BY <1>1, <1>2 DEF Is
  <2> QED BY <2>2, <2>3, Zenon DEF OnLF
<1>5. /\ t \in StateM /\ t.buff = m.buff /\ t.buf_idx = m.buf_idx + 1 /\ t.last_fin_idx = m.last_fin_idx
      /\ t.resp.is_close = m.resp.is_close /\ t.resp.status_code = o[3]
      /\ t.resp.msg_hdr_len = h /\ NoBody(t) /\ SameTable(m, t)
  BY <1>1, <1>3 DEF Kept, Placed, NoBody
<1>6. Behind(t, o, h) /\ Ordered(t)
  <2>1. m.buff[m.buf_idx + 1] = o[c + 1]
    BY <1>1 DEF Octet
  <2>2. m.buf_idx + 1 <= Len(m.buff)
    BY <1>1, TakenFacts DEF HeadRound
  <2>3. Ordered(t)
    BY <1>1, <1>5, <2>2 DEF Ordered
  <2> HIDE DEF t, o
  <2>4. Behind(t, o, c + 1)
    BY <1>1, <1>5, <2>1, BehindOn
  <2> QED BY <1>3, <2>3, <2>4
<1>7. Table(t, o, h, h - 2, h - 2)
  BY <1>2, <1>5, TableKept
<1>8. \A n \in Names : n \in t.resp.dirty <=> FieldsOf(o, h, n) # {}
  <2>1. t.resp.dirty = Known(o, h, h - 2)
    BY <1>7 DEF Table
  <2>2. \A n : \A d \in FieldsOf(o, h, n) : d < h - 2
    BY <1>1, HeadFacts DEF FieldsOf
  <2> QED BY <2>1, <2>2 DEF Known
<1>9. ASSUME NEW n \in Names, n # "Server", NEW d \in FieldsOf(o, h, n)
      PROVE  ValueOf(t, n) = o[d + 4]
  <2>1. d \in Fields(o, h) /\ d \in Nat /\ d < h - 2 /\ d + 6 <= h - 2
    <3>1. d \in Fields(o, h) /\ HeadAt(o, h) /\ o \in Seq(Octets)
      BY <1>1 DEF FieldsOf
    <3> HIDE DEF o
    <3>2. d \in Nat /\ d < h - 2
      BY <3>1, HeadFacts
    <3>3. d + 6 <= h - 2
      BY <3>1, FieldEnds
    <3> QED BY <3>1, <3>2, <3>3
  <2>2. n \in Known(o, h, h - 2)
    BY <2>1 DEF Known
  <2>3. PICK f \in FieldsOf(o, h, n) : t.resp.idx[n] = t.last_fin_idx + f + 2
    BY <1>7, <2>2 DEF Table
  <2>4. f = d
    BY <1>1, <1>9, <2>3, FieldUnique
  <2>5. d + 4 <= h /\ d \in Nat /\ h \in Nat
    BY <1>1, <2>1
  <2>6. t \in StateM /\ Ordered(t) /\ o \in Seq(Octets) /\ Behind(t, o, h)
    BY <1>1, <1>5, <1>6
  <2>7. t.resp.idx[n] = t.last_fin_idx + d + 2
    BY <2>3, <2>4
  <2> HIDE DEF t, o
  <2> QED BY <2>5, <2>6, <2>7, ValueAt
<1>10. x.resp = t.resp /\ x.buff = t.buff /\ x.buf_idx = t.buf_idx
  BY <1>5 DEF StateM
<1> HIDE DEF t, x
<1>11. Ahead(x, 1)
  BY <1>5, <1>10 DEF Ahead
<1>12. CASE o[3] = "204"
  <2>1. Finish(x)
    BY <1>4, <1>5, <1>10, <1>12, Zenon DEF HeadEnds
  <2>2. r.verdict = "FIN" /\ Len(o) = h
    BY <1>1, <1>12 DEF Means, Codes
  <2>3. Ends(x, r)
    BY <1>1, <1>5, <1>10, <2>2 DEF Ends
  <2> QED BY <1>3, <1>11, <2>1, <2>2, <2>3 DEF Result
<1>13. CASE o[3] \in {"301", "404", "500"}
  <2>1. r.verdict = IF o[3] = "301" THEN "REDIRECT" ELSE IF o[3] = "404" THEN "CLIENT_ERR" ELSE "SERVER_ERR"
    BY <1>1, <1>13 DEF Means, Codes
  <2>2. Return(x, r.verdict)
    <3>1. CASE o[3] = "301"
      BY <1>4, <1>5, <1>10, <2>1, <3>1, Zenon DEF HeadEnds
    <3>2. CASE o[3] = "404"
      BY <1>4, <1>5, <1>10, <2>1, <3>2, Zenon DEF HeadEnds
    <3>3. CASE o[3] = "500"
      BY <1>4, <1>5, <1>10, <2>1, <3>3, Zenon DEF HeadEnds
    <3> QED BY <1>13, <3>1, <3>2, <3>3
  <2>3. r.verdict \notin {"FIN", "CLOSE"}
    BY <2>1
  <2> QED BY <1>11, <2>2, <2>3 DEF Result, Ahead
<1>14. CASE o[3] \notin {"204", "301", "404", "500"}
  <2>1. /\ SizedBody(o, h) \/ ChunkedBody(o, h)
        /\ r.verdict = IF Closes(o, h) THEN "CLOSE" ELSE "FIN"
    BY <1>1, <1>14 DEF Means
  <2>2. BodyFollows(y)
    BY <1>4, <1>5, <1>10, <1>14, Zenon DEF HeadEnds, Closed, x
  <2>3. /\ y \in StateM /\ y.buff = t.buff /\ y.buf_idx = t.buf_idx /\ y.last_fin_idx = t.last_fin_idx
        /\ y.length = t.length /\ y.use_content_length = t.use_content_length
        /\ y.use_chunked = t.use_chunked /\ y.curr_chunked_size = t.curr_chunked_size
        /\ y.resp.msg_hdr_len = t.resp.msg_hdr_len /\ y.resp.dirty = t.resp.dirty
        /\ y.resp.idx = t.resp.idx /\ y.resp.use_chunked = t.resp.use_chunked
        /\ y.resp.is_close = ("Connection" \in t.resp.dirty /\ ValueOf(t, "Connection") = "close")
        /\ Is(y, "MSG_BODY", 0)
    BY <1>5, CloseNoted
  <2> HIDE DEF y
  <2>4. Ends(y, r)
    <3>1. "Connection" \in Names /\ "Connection" # "Server"
      BY DEF Names
    <3>2. y.resp.is_close <=> Closes(o, h)
      <4>1. y.resp.is_close <=> FieldsOf(o, h, "Connection") # {} /\ ValueOf(t, "Connection") = "close"
        BY <1>8, <2>3, <3>1
      <4> QED BY <1>9, <3>1, <4>1 DEF Closes
    <3> QED BY <2>1, <3>2 DEF Ends
  <2>5. "Transfer-Encoding" \in Names /\ "Content-Length" \in Names /\ "Content-Length" # "Server"
    BY DEF Names
  <2>6. CASE ChunkedBody(o, h)
    <3> DEFINE u == [y EXCEPT !.p_state = "CHUNKED"]
    <3>1. "Transfer-Encoding" \in y.resp.dirty
      BY <1>8, <2>3, <2>5, <2>6 DEF ChunkedBody
    <3>2. GoOn(u)
      BY <2>2, <3>1 DEF BodyFollows
    <3>3. /\ u.buff = t.buff /\ u.buf_idx = t.buf_idx /\ u.last_fin_idx = t.last_fin_idx
          /\ u.length = t.length /\ u.use_content_length = t.use_content_length
          /\ u.use_chunked = t.use_chunked /\ u.resp = y.resp /\ Is(u, "CHUNKED", 0)
      BY <2>3 DEF StateM, Is
    <3> HIDE DEF u
    <3>4. Behind(u, o, h) /\ Idle(u) /\ ~u.use_content_length
      BY <1>5, <1>6, <3>3 DEF Behind, Idle, NoBody
    <3>5. Table(u, o, h, h - 2, h - 2)
      BY <1>7, <2>3, <3>3, TableKept DEF SameTable
    <3> HIDE DEF o
    <3>6. Chunks(u, o, h, h) /\ h < Len(o)
      BY <1>1, <2>6, <3>3, <3>4, <3>5, ChunksBegin
    <3>7. Tracks(u, r, h, c + 1) /\ Ahead(u, 1)
      BY <1>3, <1>5, <2>4, <3>3, <3>6 DEF Tracks, Ends, Ahead, o
    <3> QED BY <1>3, <3>2, <3>6, <3>7 DEF Result, o
  <2>7. CASE SizedBody(o, h)
    <3>1. PICK d \in FieldsOf(o, h, "Content-Length") : Len(o) = h + Number(o[d + 4])
      BY <2>7 DEF SizedBody
    <3> DEFINE n == Number(o[d + 4])
               u == [y EXCEPT !.use_content_length = TRUE, !.length = n]
    <3>2. "Transfer-Encoding" \notin y.resp.dirty /\ "Content-Length" \in y.resp.dirty
      BY <1>8, <2>3, <2>5, <2>7, <3>1 DEF SizedBody
    <3>3. ValueOf(y, "Content-Length") = o[d + 4]
      <4>1. ValueOf(t, "Content-Length") = o[d + 4]
        BY <1>9, <2>5, <3>1
      <4> QED BY <2>3, <4>1 DEF ValueOf
    <3>4. IF n = 0 THEN Finish(u) ELSE GoOn(u)
      BY <2>2, <3>2, <3>3 DEF BodyFollows
    <3>5. n \in Nat /\ Len(o) = h + n
      BY <3>1, NumberType
    <3> HIDE DEF n
    <3>6. /\ u.buff = t.buff /\ u.buf_idx = t.buf_idx /\ u.resp = y.resp /\ u.p_state = "MSG_BODY"
          /\ u.use_content_length = TRUE /\ u.use_chunked = t.use_chunked /\ u.length = n
      BY <2>3 DEF StateM, Is
    <3> HIDE DEF u, o
    <3>7. Ahead(u, 1) /\ Ends(u, r)
      BY <1>5, <2>4, <3>6 DEF Ahead, Ends
    <3>8. CASE n = 0
      <4>1. c + 1 = Len(o)
        BY <1>1, <1>3, <3>5, <3>8
      <4> QED BY <3>4, <3>7, <3>8, <4>1 DEF Result, o
    <3>9. CASE n # 0
      <4>1. h < Len(o) /\ h <= h /\ n = Len(o) - h
        BY <1>1, <3>5, <3>9
      <4>2. SizedRest(u, o, h, h)
        BY <1>5, <2>3, <3>6, <4>1 DEF SizedRest, NoBody
      <4>3. Tracks(u, r, h, c + 1)
        BY <1>3, <3>7, <4>2 DEF Tracks, o
      <4> QED BY <1>3, <3>4, <3>7, <3>9, <4>1, <4>3 DEF Result, o
    <3> QED BY <3>8, <3>9
  <2> QED BY <2>1, <2>6, <2>7
<1> QED BY <1>12, <1>13, <1>14

\* A round in the head.
LEMMA HeadRounds ==
  ASSUME NEW r, NEW h, NEW c, HeadRound(r, h, c)
  PROVE  Result(r, h, c, 1)
<1>1. c \in Nat
  BY HeadRoundFacts
<1>2. CASE InStatus(m, r.octets, h, c)
  <2>1. c <= 1 \/ c \in 2..3 \/ c >= 4
    BY <1>1
  <2> QED BY <1>2, <2>1, InVersion, InCode, InReason
<1>3. CASE c >= 4 /\ InFields(m, r.octets, h, c)
  BY <1>3, EndOfLine, StartOfLine, EndOfName, WithinValue, EndOfHead DEF InFields
<1> QED BY <1>2, <1>3, HeadRoundFacts

-----------------------------------------------------------------------------
(* One round in a body. *)

\* The state in a body, and the octets of it that are in the buffer.
BodyRound(r, h, c) ==
  /\ ParserInv /\ http_resp_parser /\ r \in Responses /\ HeadAt(r.octets, h) /\ c \in Nat
  /\ c < Len(r.octets) /\ Ends(m, r)
  /\ \A i \in 1..Avail : c + i <= Len(r.octets) => m.buff[m.buf_idx + i] = r.octets[c + i]

LEMMA BodyRoundFacts ==
  ASSUME NEW r, NEW h, NEW c, BodyRound(r, h, c)
  PROVE  /\ Round /\ m \in StateM /\ Ordered(m) /\ r.octets \in Seq(Octets) /\ HeadAt(r.octets, h)
         /\ h \in Nat /\ c \in Nat /\ Len(r.octets) \in Nat /\ Octet = r.octets[c + 1]
         /\ m.buf_idx \in Nat /\ m.last_fin_idx \in Nat /\ Len(m.buff) \in Nat /\ m.length \in Nat
         /\ m.parsed_len \in Nat /\ Avail \in Nat /\ Avail > 0 /\ Avail = Len(m.buff) - m.buf_idx
<1>1. ParserInv /\ http_resp_parser /\ r.octets \in Seq(Octets) /\ HeadAt(r.octets, h) /\ c \in Nat
  BY DEF BodyRound, Responses
<1>2. Round
  BY <1>1 DEF http_resp_parser, SkipAll, EndBody, EndChunk, OnCR, OnLF, OnSP, OnColon, OnOther, InHeader
<1>3. m \in StateM /\ Ordered(m) /\ m.buf_idx \in Nat /\ Len(m.buff) \in Nat /\ m.buf_idx < Len(m.buff)
  BY <1>1, <1>2, RoundFacts
<1>4. Avail = Len(m.buff) - m.buf_idx
  BY DEF Avail
<1>5. Avail \in Nat /\ Avail > 0
  BY <1>3, <1>4
<1>6. m.last_fin_idx \in Nat /\ m.length \in Nat /\ m.parsed_len \in Nat
  BY <1>3 DEF StateM
<1>7. Len(r.octets) \in Nat /\ h \in Nat
  BY <1>1, HeadFacts
<1>8. Octet = r.octets[c + 1]
  <2>1. 1 \in 1..Avail /\ c + 1 <= Len(r.octets)
    BY <1>1, <1>5, <1>7 DEF BodyRound
  <2> QED BY <2>1 DEF BodyRound, Octet
<1> QED BY <1>1, <1>2, <1>3, <1>4, <1>5, <1>6, <1>7, <1>8

\* With a length given.
LEMMA SizedRounds ==
  ASSUME NEW r, NEW h, NEW c, BodyRound(r, h, c), SizedRest(m, r.octets, h, c)
  PROVE  \E k \in 1..Avail : Result(r, h, c, k)
<1> DEFINE L == Len(r.octets)
<1>1. /\ Round /\ m \in StateM /\ c \in Nat /\ L \in Nat /\ h \in Nat
      /\ Avail \in Nat /\ Avail > 0 /\ m.length \in Nat /\ m.buf_idx \in Nat
      /\ Len(m.buff) \in Nat /\ Avail = Len(m.buff) - m.buf_idx
  BY BodyRoundFacts
<1>2. /\ m.p_state = "MSG_BODY" /\ m.use_content_length /\ ~m.use_chunked
      /\ h <= c /\ c < L /\ m.length = L - c /\ m.resp.msg_hdr_len = h
  BY DEF SizedRest
<1>3. InBody /\ ~InChunk
  BY <1>1, <1>2 DEF InBody, InChunk
<1>4. SkipAll \/ EndBody
  BY <1>3 DEF BodyRound, http_resp_parser, EndChunk, OnCR, OnLF, OnSP, OnColon, OnOther, InHeader
<1>5. CASE SkipAll
  <2> DEFINE d == IF InChunk THEN m.curr_chunked_size + Avail ELSE m.curr_chunked_size
             n == m.length - Avail
             u == [m EXCEPT !.buf_idx = Len(m.buff), !.parsed_len = m.parsed_len + 1, !.length = n,
                            !.curr_chunked_size = d]
  <2>1. GoOn(u) /\ Avail < m.length
    <3>1. [m EXCEPT !.buf_idx = Len(m.buff), !.parsed_len = @ + 1, !.length = @ - Avail,
                    !.curr_chunked_size = IF InChunk THEN @ + Avail ELSE @] = u
      BY <1>1 DEF StateM
    <3> QED BY <1>5, <3>1 DEF SkipAll
  <2> HIDE DEF d, n
  <2>2. /\ u.buff = m.buff /\ u.buf_idx = Len(m.buff) /\ u.resp = m.resp /\ u.p_state = m.p_state
        /\ u.length = n /\ u.use_content_length = m.use_content_length /\ u.use_chunked = m.use_chunked
    BY <1>1 DEF StateM
  <2> HIDE DEF u
  <2>3. n = L - (c + Avail) /\ c + Avail < L /\ h <= c + Avail
    <3> HIDE DEF L
    <3> QED BY <1>1, <1>2, <2>1 DEF n
  <2>4. SizedRest(u, r.octets, h, c + Avail)
    BY <1>2, <2>2, <2>3 DEF SizedRest
  <2>5. Ahead(u, Avail)
    BY <1>1, <2>2 DEF Ahead
  <2>6. Tracks(u, r, h, c + Avail)
    BY <2>2, <2>4 DEF Tracks, Ends, BodyRound
  <2>7. Result(r, h, c, Avail) /\ Avail \in 1..Avail
    BY <1>1, <2>1, <2>3, <2>5, <2>6 DEF Result
  <2> QED BY <2>7
<1>6. CASE EndBody
  <2> DEFINE k == m.length
             u == [m EXCEPT !.buf_idx = @ + k, !.parsed_len = @ + 1, !.length = 0]
  <2>1. Finish(u) /\ Avail >= k
    BY <1>6 DEF EndBody
  <2>2. k \in 1..Avail /\ c + k = L
    <3> HIDE DEF L
    <3> QED BY <1>1, <1>2, <2>1
  <2>3. u.buff = m.buff /\ u.buf_idx = m.buf_idx + k /\ u.resp = m.resp
    BY <1>1 DEF StateM
  <2> HIDE DEF u, k
  <2>4. Ahead(u, k) /\ Ends(u, r)
    BY <2>3 DEF Ahead, Ends, BodyRound
  <2> QED BY <2>1, <2>2, <2>4 DEF Result
<1> QED BY <1>4, <1>5, <1>6

\* In chunks: what there is to show of a state with which the loop goes on.
LEMMA ChunksGoOn ==
  ASSUME NEW r, NEW h, NEW c, BodyRound(r, h, c), Chunks(m, r.octets, h, c), NEW u, NEW k \in 1..Avail,
         GoOn(u), u.buff = m.buff, u.buf_idx = m.buf_idx + k, u.last_fin_idx = m.last_fin_idx,
         u.resp.use_chunked = m.resp.use_chunked, u.resp.is_close = m.resp.is_close,
         u.use_content_length = m.use_content_length, c + k < Len(r.octets),
         NEW B \in SUBSET SizeLines(r.octets, h), ChunksAt(r.octets, B), NEW b \in B,
         \/ InSize(u, b, c + k) \/ InData(u, r.octets, B, b, c + k) \/ InLast(u, r.octets, b, c + k)
  PROVE  Result(r, h, c, k)
<1> DEFINE o == r.octets
<1>1. ChunkedBody(o, h) /\ Behind(m, o, c) /\ m.resp.use_chunked /\ ~m.use_content_length
  BY DEF Chunks
<1>2. m.last_fin_idx \in Nat /\ c \in Nat /\ Avail \in Nat /\ Len(o) \in Nat /\ m.buf_idx \in Nat
  BY BodyRoundFacts
<1>3. Behind(u, o, c + k)
  <2>1. m.buf_idx = m.last_fin_idx + c
    BY <1>1 DEF Behind
  <2>2. m.buf_idx + k = m.last_fin_idx + (c + k)
    BY <1>2, <2>1
  <2>3. ASSUME NEW j \in 1..c + k PROVE m.buff[m.last_fin_idx + j] = o[j]
    <3>1. CASE j <= c
      <4>1. j \in 1..c
        BY <1>2, <3>1
      <4> QED BY <1>1, <4>1 DEF Behind
    <3>2. CASE j > c
      <4> DEFINE i == j - c
      <4>1. i \in 1..Avail /\ c + i = j /\ c + i <= Len(o)
        BY <1>2, <3>2
      <4>2. m.buf_idx + i = m.last_fin_idx + j
        BY <1>2, <2>1, <4>1
      <4>3. m.buff[m.buf_idx + i] = o[c + i]
        BY <4>1 DEF BodyRound
      <4> QED BY <4>1, <4>2, <4>3
    <3> QED BY <1>2, <3>1, <3>2
  <2> QED BY <2>2, <2>3 DEF Behind
<1>4. Chunks(u, o, h, c + k)
  BY <1>1, <1>3 DEF Chunks
<1>5. Tracks(u, r, h, c + k) /\ Ahead(u, k)
  BY <1>4 DEF Tracks, Ends, BodyRound, Ahead
<1> QED BY <1>5 DEF Result

\* An octet between chunks is taken as if for the header.
LEMMA IdleRound ==
  ASSUME NEW r, NEW h, NEW c, BodyRound(r, h, c), Chunks(m, r.octets, h, c), Idle(m)
  PROVE  /\ InHeader /\ Kept(m, Taken) /\ Placed(m, Taken) /\ Taken.parsed_len = m.parsed_len + 1
         /\ Taken.p_state = m.p_state /\ Idle(Taken) /\ Behind(m, r.octets, c)
         /\ m.resp.use_chunked /\ ~m.use_content_length
<1>1. InHeader
  BY BodyRoundFacts DEF InHeader, InBody, InChunk, Idle
<1>2. Kept(m, Taken) /\ Taken.parsed_len = m.parsed_len + 1 /\ Taken.p_state = m.p_state
  BY <1>1, TakenKept DEF BodyRound
<1> QED BY <1>1, <1>2 DEF Kept, Placed, Idle, Chunks

LEMMA IdleGoesOn ==
  ASSUME NEW r, NEW h, NEW c, BodyRound(r, h, c), Chunks(m, r.octets, h, c), NEW u,
         GoOn(u), Kept(m, u), c + 1 < Len(r.octets),
         NEW B \in SUBSET SizeLines(r.octets, h), ChunksAt(r.octets, B), NEW b \in B,
         \/ InSize(u, b, c + 1) \/ InData(u, r.octets, B, b, c + 1) \/ InLast(u, r.octets, b, c + 1)
  PROVE  \E k \in 1..Avail : Result(r, h, c, k)
<1>1. 1 \in 1..Avail
  BY BodyRoundFacts
<1>2. /\ u.buff = m.buff /\ u.buf_idx = m.buf_idx + 1 /\ u.last_fin_idx = m.last_fin_idx
      /\ u.resp.use_chunked = m.resp.use_chunked /\ u.resp.is_close = m.resp.is_close
      /\ u.use_content_length = m.use_content_length
  BY DEF Kept, Placed, SameTable
<1>3. Result(r, h, c, 1)
  BY <1>1, <1>2, ChunksGoOn
<1> QED BY <1>1, <1>3

LEMMA SizeLineFacts ==
  ASSUME NEW o \in Seq(Octets), NEW h, HeadAt(o, h), NEW B \in SUBSET SizeLines(o, h), ChunksAt(o, B), NEW b \in B
  PROVE  /\ b \in Nat /\ h <= b /\ b + 5 <= Len(o) /\ o[b + 2] = CR /\ o[b + 3] = LF
         /\ o[b + 1] \notin Separators
         /\ LastAt(o, b) \/ \E n \in 1 .. Len(o) : ChunkAt(o, b, n) /\ b + 5 + n \in B
<1>1. b \in h .. Len(o) - 5 /\ o[b + 2] = CR /\ o[b + 3] = LF
  BY DEF SizeLines
<1>2. h \in Nat /\ Len(o) \in Nat
  BY HeadFacts
<1>3. LastAt(o, b) \/ \E n \in 1 .. Len(o) : ChunkAt(o, b, n) /\ b + 5 + n \in B
  BY DEF ChunksAt
<1>4. CASE LastAt(o, b)
  BY <1>1, <1>2, <1>3, <1>4 DEF LastAt
<1>5. CASE \E n \in 1 .. Len(o) : ChunkAt(o, b, n) /\ b + 5 + n \in B
  <2>1. PICK n \in 1 .. Len(o) : n > 0 /\ Number(o[b + 1]) = n
    BY <1>5 DEF ChunkAt
  <2>2. Number(o[b + 1]) # 0
    BY <1>2, <2>1
  <2>3. o[b + 1] \notin Separators
    BY <2>2 DEF Number, Separators, CR, LF, SP, COLON
  <2> QED BY <1>1, <1>2, <1>3, <2>3
<1> QED BY <1>3, <1>4, <1>5

\* The line with the size of a chunk.
LEMMA SizeRounds ==
  ASSUME NEW r, NEW h, NEW c, BodyRound(r, h, c), Chunks(m, r.octets, h, c),
         NEW B \in SUBSET SizeLines(r.octets, h), ChunksAt(r.octets, B), NEW b \in B, InSize(m, b, c)
  PROVE  \E k \in 1..Avail : Result(r, h, c, k)
<1> DEFINE o == r.octets
           t == Taken
<1>1. /\ m \in StateM /\ o \in Seq(Octets) /\ HeadAt(o, h) /\ c \in Nat /\ Len(o) \in Nat /\ Octet = o[c + 1]
      /\ m.buf_idx \in Nat /\ Avail \in Nat /\ Avail > 0
  BY BodyRoundFacts
<1>2. Idle(m) /\ m.p_state = "CHUNKED" /\ c \in b .. b + 2 /\ m.parsed_len = c - b
  BY DEF InSize
<1>3. /\ InHeader /\ Kept(m, t) /\ Placed(m, t) /\ t.parsed_len = m.parsed_len + 1
      /\ t.p_state = m.p_state /\ Idle(t) /\ Behind(m, o, c)
      /\ m.resp.use_chunked /\ ~m.use_content_length /\ http_resp_parser
  BY <1>2, IdleRound DEF BodyRound
<1>4. /\ b \in Nat /\ h <= b /\ b + 5 <= Len(o) /\ o[b + 2] = CR /\ o[b + 3] = LF
      /\ o[b + 1] \notin Separators
      /\ LastAt(o, b) \/ \E n \in 1 .. Len(o) : ChunkAt(o, b, n) /\ b + 5 + n \in B
  BY <1>1, SizeLineFacts
<1>5. ASSUME c = b \/ c = b + 1, GoOn(t) PROVE \E k \in 1..Avail : Result(r, h, c, k)
  <2>1. c + 1 \in b .. b + 2 /\ t.parsed_len = (c + 1) - b /\ c + 1 < Len(o)
    BY <1>1, <1>2, <1>3, <1>4, <1>5
  <2>2. InSize(t, b, c + 1)
    BY <1>2, <1>3, <2>1 DEF InSize
  <2> HIDE DEF t
  <2> QED BY <1>3, <1>5, <2>1, <2>2, IdleGoesOn
<1>6. CASE c = b
  <2>1. GoOn(t)
    BY <1>1, <1>3, <1>4, <1>6, ByOctet DEF OnOther
  <2> QED BY <1>5, <1>6, <2>1
<1>7. CASE c = b + 1
  <2>1. Octet = CR
    <3>1. c + 1 = b + 2
      BY <1>4, <1>7
    <3> QED BY <1>1, <1>4, <3>1
  <2>2. OnCR
    BY <1>3, <2>1, ByOctet
  <2>3. t.p_state \notin StatusLine /\ t.p_state \notin HeaderField /\ t.p_state # "REASON_OR_RESOURCE"
    BY <1>2, <1>3 DEF StatusLine, HeaderField
  <2>4. GoOn(t)
    BY <2>2, <2>3, Zenon DEF OnCR
  <2> QED BY <1>5, <1>7, <2>4
<1>8. CASE c = b + 2
  <2> DEFINE u == [t EXCEPT !.parsed_len = 0]
             n == Number(o[b + 1])
  <2>1. Octet = LF
    <3>1. c + 1 = b + 3
      BY <1>4, <1>8
    <3> QED BY <1>1, <1>4, <3>1
  <2>2. t.parsed_len = 3 /\ t.resp.use_chunked
    BY <1>2, <1>3, <1>4, <1>8 DEF Kept, SameTable
  <2>3. SizeEnds(t)
    <3>1. OnLF
      BY <1>3, <2>1, ByOctet
    <3>2. t.p_state = "CHUNKED"
      BY <1>2, <1>3
    <3> QED BY <2>2, <3>1, <3>2, Zenon DEF OnLF
  <2>4. FirstOf(t) = o[b + 1]
    <3> DEFINE k == b + 1
    <3>1. m.buff[m.buf_idx + 1] = o[c + 1]
      BY <1>1 DEF Octet
    <3>2. k \in 1..c + 1 /\ t.parsed_len = c + 2 - k
      BY <1>4, <1>8, <2>2
    <3> HIDE DEF t, o, k
    <3>3. FirstOf(t) = o[k]
      BY <1>1, <1>3, <3>1, <3>2, FirstIs
    <3> QED BY <3>3 DEF k
  <2>5. /\ n > 0 => GoOn([u EXCEPT !.length = n, !.use_chunked = TRUE])
        /\ n = 0 => GoOn(u)
    <3> HIDE DEF t, n, u
    <3>1. n = Number(FirstOf(t))
      BY <2>4 DEF n
    <3>2. CASE n > 0
      <4>1. Number(FirstOf(t)) > 0
        BY <3>1, <3>2
      <4> DEFINE z == Number(FirstOf(t))
                 v == [[t EXCEPT !.parsed_len = 0] EXCEPT !.length = z, !.use_chunked = TRUE]
      <4>2. GoOn(v)
        <5>1. SizeEnds(t) <=> CASE z > 0 -> GoOn(v) [] z = 0 /\ t.parsed_len = 2 -> Finish([t EXCEPT !.parsed_len = 0])
                                [] OTHER -> GoOn([t EXCEPT !.parsed_len = 0])
          BY DEF SizeEnds
        <5> HIDE DEF z, v
        <5> QED BY <2>3, <2>2, <4>1, <5>1 DEF z
      <4>3. GoOn([u EXCEPT !.length = n, !.use_chunked = TRUE])
        BY <3>1, <4>2 DEF u
      <4>4. n # 0
        BY <3>2
      <4> QED BY <4>3, <4>4
    <3>3. CASE n = 0
      <4>1. ~(n > 0) /\ ~(n = 0 /\ t.parsed_len = 2)
        BY <2>2, <3>3
      <4>2. GoOn(u)
        BY <2>3, <3>1, <4>1, Zenon DEF SizeEnds, u
      <4> QED BY <4>1, <4>2
    <3>4. n \in Nat
      BY NumberType DEF n
    <3> QED BY <3>2, <3>3, <3>4
  <2>6. t \in StateM
    BY <1>3 DEF Placed
  <2>7. c + 1 = b + 3 /\ c + 1 < Len(o)
    BY <1>4, <1>8
  <2>8. CASE \E k \in 1 .. Len(o) : ChunkAt(o, b, k) /\ b + 5 + k \in B
    <3>1. PICK k \in 1 .. Len(o) : ChunkAt(o, b, k) /\ b + 5 + k \in B
      BY <2>8
    <3>2. k = n /\ n > 0 /\ n \in Nat
      BY <1>1, <3>1 DEF ChunkAt
    <3> DEFINE w == [u EXCEPT !.length = n, !.use_chunked = TRUE]
    <3>3. GoOn(w)
      BY <2>5, <3>2
    <3>4. /\ w.buff = t.buff /\ w.buf_idx = t.buf_idx /\ w.last_fin_idx = t.last_fin_idx /\ w.resp = t.resp
          /\ w.use_content_length = t.use_content_length /\ w.use_chunked = TRUE /\ w.length = n
          /\ w.p_state = t.p_state
      BY <2>6 DEF StateM
    <3> HIDE DEF w, n, u, t, o
    <3>5. /\ w.buff = m.buff /\ w.buf_idx = m.buf_idx + 1 /\ w.last_fin_idx = m.last_fin_idx
          /\ w.resp.use_chunked = m.resp.use_chunked /\ w.resp.is_close = m.resp.is_close
          /\ w.use_content_length = m.use_content_length
      BY <1>3, <3>4 DEF Kept, Placed, SameTable
    <3>6. InData(w, o, B, b, c + 1)
      <4>1. c + 1 \in b + 3 .. b + 2 + n /\ n = b + 3 + n - (c + 1)
        BY <1>4, <2>7, <3>2
      <4>2. w.p_state \notin HeadStates
        BY <1>2, <1>3, <3>4 DEF HeadStates, StatusLine, HeaderField
      <4>3. n \in 1 .. Len(o) /\ ChunkAt(o, b, n) /\ b + 5 + n \in B
        BY <3>1, <3>2
      <4> QED BY <3>4, <4>1, <4>2, <4>3 DEF InData
    <3>7. 1 \in 1..Avail
      BY <1>1
    <3>8. Result(r, h, c, 1)
      BY <2>7, <3>3, <3>5, <3>6, <3>7, ChunksGoOn DEF o
    <3> QED BY <3>7, <3>8
  <2>9. CASE LastAt(o, b)
    <3>1. n = 0
      BY <2>9 DEF LastAt
    <3>2. GoOn(u)
      BY <2>5, <3>1
    <3>3. u = Begun(t, "CHUNKED")
      BY <1>2, <1>3, <2>6 DEF Begun, StateM
    <3>4. "CHUNKED" \in PStates
      BY DEF PStates, BodyStates
    <3>5. Kept(m, u) /\ Is(u, "CHUNKED", 0)
      BY <1>3, <3>3, <3>4, BegunKept
    <3>6. Idle(u)
      BY <1>2, <3>5 DEF Idle, Kept, Placed
    <3> HIDE DEF u, t, n
    <3>7. c + 1 \in b + 3 .. b + 4 /\ 0 = (c + 1) - (b + 3)
      BY <1>4, <2>7
    <3>8. InLast(u, o, b, c + 1)
      BY <2>9, <3>5, <3>6, <3>7 DEF InLast, Is
    <3> QED BY <2>7, <3>2, <3>5, <3>8, IdleGoesOn
  <2> QED BY <1>4, <2>8, <2>9
<1> QED
  <2>1. c = b \/ c = b + 1 \/ c = b + 2
    BY <1>1, <1>2, <1>4
  <2> QED BY <1>6, <1>7, <1>8, <2>1

\* Behind the line "0".
LEMMA LastRounds ==
  ASSUME NEW r, NEW h, NEW c, BodyRound(r, h, c), Chunks(m, r.octets, h, c),
         NEW B \in SUBSET SizeLines(r.octets, h), ChunksAt(r.octets, B), NEW b \in B, InLast(m, r.octets, b, c)
  PROVE  \E k \in 1..Avail : Result(r, h, c, k)
<1> DEFINE o == r.octets
           t == Taken
<1>1. /\ m \in StateM /\ o \in Seq(Octets) /\ HeadAt(o, h) /\ c \in Nat /\ Len(o) \in Nat /\ Octet = o[c + 1]
      /\ m.buf_idx \in Nat /\ Avail \in Nat /\ Avail > 0
  BY BodyRoundFacts
<1>2. LastAt(o, b) /\ Idle(m) /\ m.p_state = "CHUNKED" /\ c \in b + 3 .. b + 4 /\ m.parsed_len = c - (b + 3)
  BY DEF InLast
<1>3. /\ InHeader /\ Kept(m, t) /\ Placed(m, t) /\ t.parsed_len = m.parsed_len + 1
      /\ t.p_state = m.p_state /\ Idle(t) /\ Behind(m, o, c)
      /\ m.resp.use_chunked /\ ~m.use_content_length /\ http_resp_parser
  BY <1>2, IdleRound DEF BodyRound
<1>4. b \in Nat /\ Len(o) = b + 5 /\ o[b + 4] = CR /\ o[b + 5] = LF
  BY <1>1, <1>2, SizeLineFacts DEF LastAt
<1>5. CASE c = b + 3
  <2>1. Octet = CR
    <3>1. c + 1 = b + 4
      BY <1>4, <1>5
    <3> QED BY <1>1, <1>4, <3>1
  <2>2. OnCR
    BY <1>3, <2>1, ByOctet
  <2>3. t.p_state \notin StatusLine /\ t.p_state \notin HeaderField /\ t.p_state # "REASON_OR_RESOURCE"
    BY <1>2, <1>3 DEF StatusLine, HeaderField
  <2>4. GoOn(t)
    BY <2>2, <2>3, Zenon DEF OnCR
  <2>5. c + 1 \in b + 3 .. b + 4 /\ t.parsed_len = (c + 1) - (b + 3) /\ c + 1 < Len(o)
    BY <1>2, <1>3, <1>4, <1>5
  <2>6. InLast(t, o, b, c + 1)
    BY <1>2, <1>3, <2>5 DEF InLast
  <2> HIDE DEF t
  <2> QED BY <1>3, <2>4, <2>5, <2>6, IdleGoesOn
<1>6. CASE c = b + 4
  <2> DEFINE u == [t EXCEPT !.parsed_len = 0]
  <2>1. Octet = LF
    <3>1. c + 1 = b + 5
      BY <1>4, <1>6
    <3> QED BY <1>1, <1>4, <3>1
  <2>2. t.parsed_len = 2 /\ t.resp.use_chunked
    BY <1>2, <1>3, <1>4, <1>6 DEF Kept, SameTable
  <2>3. SizeEnds(t)
    <3>1. OnLF
      BY <1>3, <2>1, ByOctet
    <3>2. t.p_state = "CHUNKED"
      BY <1>2, <1>3
    <3> QED BY <2>2, <3>1, <3>2, Zenon DEF OnLF
  <2>4. FirstOf(t) = CR
    <3>1. m.buff[m.buf_idx + 1] = o[c + 1]
      BY <1>1 DEF Octet
    <3>2. c \in 1..c + 1 /\ t.parsed_len = c + 2 - c
      BY <1>4, <1>6, <2>2
    <3> HIDE DEF t, o
    <3>3. FirstOf(t) = o[c]
      BY <1>1, <1>3, <3>1, <3>2, FirstIs
    <3> QED BY <1>4, <1>6, <3>3
  <2>5. Finish(u)
    <3>1. Number(FirstOf(t)) = 0
      BY <2>4 DEF Number, CR
    <3>2. ~(Number(FirstOf(t)) > 0) /\ Number(FirstOf(t)) = 0 /\ t.parsed_len = 2
      BY <2>2, <3>1
    <3> HIDE DEF t
    <3> QED BY <2>3, <3>2, Zenon DEF SizeEnds, u
  <2>6. t \in StateM
    BY <1>3 DEF Placed
  <2>7. u.buff = t.buff /\ u.buf_idx = t.buf_idx /\ u.resp = t.resp
    BY <2>6 DEF StateM
  <2> HIDE DEF u, t
  <2>8. Ahead(u, 1) /\ Ends(u, r)
    BY <1>3, <2>7 DEF Ahead, Ends, Kept, Placed, BodyRound
  <2>9. 1 \in 1..Avail /\ c + 1 = Len(o)
    BY <1>1, <1>4, <1>6
  <2> QED BY <2>5, <2>8, <2>9 DEF Result
<1> QED BY <1>1, <1>2, <1>4, <1>5, <1>6

\* The octets of a chunk of n octets behind b, taken as far as the buffer goes.
LEMMA ChunkArithmetic ==
  ASSUME NEW b \in Nat, NEW c \in Nat, NEW n \in Nat, NEW a \in Nat, NEW l \in Nat, NEW L \in Nat,
         a > 0, c \in b + 3 .. b + 2 + n, l = b + 3 + n - c, b + 5 + n <= L
  PROVE  /\ a < l => /\ l - a = b + 3 + n - (c + a) /\ c + a < L /\ c + a \in b + 3 .. b + 2 + n
         /\ l <= a => /\ l \in 1..a /\ c + l = b + 3 + n /\ c + l < L /\ c + l \in b + 3 + n .. b + 4 + n
OBVIOUS

\* A chunk and the end of its line.
LEMMA DataRounds ==
  ASSUME NEW r, NEW h, NEW c, BodyRound(r, h, c), Chunks(m, r.octets, h, c),
         NEW B \in SUBSET SizeLines(r.octets, h), ChunksAt(r.octets, B), NEW b \in B, InData(m, r.octets, B, b, c)
  PROVE  \E k \in 1..Avail : Result(r, h, c, k)
<1> DEFINE o == r.octets
           t == Taken
<1>1. /\ Round /\ m \in StateM /\ o \in Seq(Octets) /\ HeadAt(o, h) /\ c \in Nat /\ Len(o) \in Nat
      /\ Octet = o[c + 1] /\ m.buf_idx \in Nat /\ Avail \in Nat /\ Avail > 0 /\ m.length \in Nat
      /\ Len(m.buff) \in Nat /\ Avail = Len(m.buff) - m.buf_idx
  BY BodyRoundFacts
<1>2. PICK n \in 1 .. Len(o) :
        /\ ChunkAt(o, b, n) /\ b + 5 + n \in B
        /\ \/ /\ c \in b + 3 .. b + 2 + n /\ m.use_chunked /\ m.length = b + 3 + n - c
              /\ m.p_state \notin HeadStates
           \/ c \in b + 3 + n .. b + 4 + n /\ Idle(m) /\ m.p_state = "NEXT_CHUNKED"
  BY DEF InData
<1>3. /\ b \in Nat /\ n \in Nat /\ n > 0 /\ b + 5 + n <= Len(o)
      /\ o[b + 3 + n] # LF /\ o[b + 4 + n] = CR /\ o[b + 5 + n] = LF
  <2>1. b \in Nat
    BY <1>1, SizeLineFacts
  <2>2. ChunkAt(o, b, n) /\ n \in Nat
    BY <1>1, <1>2
  <2> QED BY <2>1, <2>2 DEF ChunkAt
<1>4. ~m.use_content_length /\ m.resp.use_chunked /\ http_resp_parser
  BY DEF Chunks, BodyRound
<1>5. CASE /\ c \in b + 3 .. b + 2 + n /\ m.use_chunked /\ m.length = b + 3 + n - c
           /\ m.p_state \notin HeadStates
  <2>1. InChunk /\ ~InBody
    BY <1>1, <1>3, <1>4, <1>5 DEF InChunk, InBody
  <2>2. SkipAll \/ EndChunk
    BY <1>4, <2>1 DEF http_resp_parser, EndBody, OnCR, OnLF, OnSP, OnColon, OnOther, InHeader
  <2>c. /\ Avail < m.length => /\ m.length - Avail = b + 3 + n - (c + Avail) /\ c + Avail < Len(o)
                               /\ c + Avail \in b + 3 .. b + 2 + n
        /\ m.length <= Avail => /\ m.length \in 1..Avail /\ c + m.length = b + 3 + n
                                /\ c + m.length < Len(o) /\ c + m.length \in b + 3 + n .. b + 4 + n
    <3> DEFINE a == Avail
               l == m.length
               L == Len(o)
    <3>1. a \in Nat /\ a > 0 /\ l \in Nat /\ L \in Nat /\ b \in Nat /\ c \in Nat /\ n \in Nat /\ b + 5 + n <= L
      BY <1>1, <1>3
    <3>2. c \in b + 3 .. b + 2 + n /\ l = b + 3 + n - c
      BY <1>5
    <3> HIDE DEF a, l, L
    <3>3. /\ a < l => /\ l - a = b + 3 + n - (c + a) /\ c + a < L /\ c + a \in b + 3 .. b + 2 + n
          /\ l <= a => /\ l \in 1..a /\ c + l = b + 3 + n /\ c + l < L /\ c + l \in b + 3 + n .. b + 4 + n
      BY <3>1, <3>2, ChunkArithmetic
    <3> QED BY <3>3 DEF a, l, L
  <2>3. CASE SkipAll
    <3> DEFINE d == m.curr_chunked_size + Avail
               l == m.length - Avail
               u == [m EXCEPT !.buf_idx = Len(m.buff), !.parsed_len = m.parsed_len + 1, !.length = l,
                              !.curr_chunked_size = d]
    <3>1. GoOn(u) /\ Avail < m.length
      <4>1. [m EXCEPT !.buf_idx = Len(m.buff), !.parsed_len = @ + 1, !.length = @ - Avail,
                      !.curr_chunked_size = IF InChunk THEN @ + Avail ELSE @] = u
        BY <1>1, <2>1 DEF StateM
      <4> QED BY <2>3, <4>1 DEF SkipAll
    <3> HIDE DEF d, l
    <3>2. /\ u.buff = m.buff /\ u.buf_idx = Len(m.buff) /\ u.resp = m.resp /\ u.p_state = m.p_state
          /\ u.length = l /\ u.use_content_length = m.use_content_length /\ u.use_chunked = m.use_chunked
          /\ u.last_fin_idx = m.last_fin_idx
      BY <1>1 DEF StateM
    <3> HIDE DEF u, o
    <3>3. /\ l = b + 3 + n - (c + Avail) /\ c + Avail < Len(o) /\ c + Avail \in b + 3 .. b + 2 + n
          /\ Len(m.buff) = m.buf_idx + Avail /\ Avail \in 1..Avail
      <4>1. l = b + 3 + n - (c + Avail) /\ c + Avail < Len(o) /\ c + Avail \in b + 3 .. b + 2 + n
        BY <2>c, <3>1 DEF l
      <4>2. Avail \in Nat /\ Avail > 0 /\ Len(m.buff) \in Nat /\ m.buf_idx \in Nat /\ Avail = Len(m.buff) - m.buf_idx
        BY <1>1
      <4> DEFINE X == Len(m.buff)
                 Y == m.buf_idx
                 a == Avail
      <4>3. a \in Nat /\ a > 0 /\ X \in Nat /\ Y \in Nat /\ a = X - Y
        BY <4>2
      <4> HIDE DEF X, Y, a
      <4>4. X = Y + a /\ a \in 1..a
        BY <4>3
      <4> QED BY <4>1, <4>4 DEF X, Y, a
    <3>4. InData(u, o, B, b, c + Avail)
      BY <1>2, <1>5, <3>2, <3>3 DEF InData
    <3>5. Result(r, h, c, Avail)
      BY <3>1, <3>2, <3>3, <3>4, ChunksGoOn DEF o
    <3> QED BY <3>3, <3>5
  <2>4. CASE EndChunk
    <3> DEFINE k == m.length
               e == m.buf_idx + k
               last == m.buff[e]
               p == IF last = LF THEN "CHUNKED" ELSE "NEXT_CHUNKED"
               d == m.curr_chunked_size + k
               g == [m.resp EXCEPT !.msg_hdr_len = @ + 1]
               u == [m EXCEPT !.buf_idx = e, !.parsed_len = 0, !.length = 0, !.use_chunked = FALSE,
                              !.p_state = p, !.curr_chunked_size = d, !.resp = g]
    <3>1. GoOn(u) /\ Avail >= k
      <4>1. [m EXCEPT !.buf_idx = e, !.parsed_len = 0, !.length = 0, !.use_chunked = FALSE,
                      !.p_state = p, !.curr_chunked_size = @ + m.length, !.resp.msg_hdr_len = @ + 1] = u
        BY <1>1 DEF StateM
      <4> QED BY <2>4, <4>1 DEF EndChunk
    <3> HIDE DEF o
    <3>2. k \in 1..Avail /\ c + k = b + 3 + n /\ c + k < Len(o) /\ c + k <= Len(o)
          /\ c + k \in b + 3 + n .. b + 4 + n
      BY <1>1, <2>c, <3>1
    <3>3. p = "NEXT_CHUNKED"
      <4>1. last = o[c + k]
        BY <3>2 DEF BodyRound, o
      <4> QED BY <1>3, <3>2, <4>1
    <3> HIDE DEF d, p, last
    <3>4. g.use_chunked = m.resp.use_chunked /\ g.is_close = m.resp.is_close
      BY <1>1 DEF StateM, Header
    <3> HIDE DEF g
    <3>5. /\ u.buff = m.buff /\ u.buf_idx = m.buf_idx + k /\ u.resp = g /\ u.p_state = p
          /\ u.length = 0 /\ u.use_content_length = m.use_content_length /\ u.use_chunked = FALSE
          /\ u.last_fin_idx = m.last_fin_idx
      BY <1>1 DEF StateM
    <3> HIDE DEF u, k
    <3>6. InData(u, o, B, b, c + k)
      <4>1. Idle(u) /\ u.p_state = "NEXT_CHUNKED"
        BY <3>3, <3>5 DEF Idle
      <4> QED BY <1>2, <3>2, <4>1 DEF InData
    <3>7. Result(r, h, c, k)
      BY <3>1, <3>2, <3>4, <3>5, <3>6, ChunksGoOn DEF o
    <3> QED BY <3>2, <3>7
  <2> QED BY <2>2, <2>3, <2>4
<1>6. CASE c \in b + 3 + n .. b + 4 + n /\ Idle(m) /\ m.p_state = "NEXT_CHUNKED"
  <2>1. /\ InHeader /\ Kept(m, t) /\ Placed(m, t) /\ t.p_state = m.p_state /\ Idle(t)
    BY <1>6, IdleRound
  <2>2. CASE c = b + 3 + n
    <3>1. Octet = CR
      <4>1. c + 1 = b + 4 + n
        BY <1>3, <2>2
      <4> QED BY <1>1, <1>3, <4>1
    <3>2. OnCR
      BY <1>4, <2>1, <3>1, ByOctet
    <3>3. t.p_state \notin StatusLine /\ t.p_state \notin HeaderField /\ t.p_state # "REASON_OR_RESOURCE"
      BY <1>6, <2>1 DEF StatusLine, HeaderField
    <3>4. GoOn(t)
      BY <3>2, <3>3, Zenon DEF OnCR
    <3>5. c + 1 \in b + 3 + n .. b + 4 + n /\ c + 1 < Len(o)
      BY <1>1, <1>3, <2>2
    <3>6. InData(t, o, B, b, c + 1)
      BY <1>2, <1>6, <2>1, <3>5 DEF InData
    <3> HIDE DEF t
    <3> QED BY <2>1, <3>4, <3>5, <3>6, IdleGoesOn
  <2>3. CASE c = b + 4 + n
    <3> DEFINE u == Begun(t, "CHUNKED")
               f == b + 5 + n
    <3>1. Octet = LF
      <4>1. c + 1 = b + 5 + n
        BY <1>3, <2>3
      <4> QED BY <1>1, <1>3, <4>1
    <3>2. OnLF
      BY <1>4, <2>1, <3>1, ByOctet
    <3>3. GoOn(u)
      <4>1. t.p_state = "NEXT_CHUNKED"
        BY <1>6, <2>1
      <4> QED BY <3>2, <4>1, Zenon DEF OnLF, Begun
    <3>4. "CHUNKED" \in PStates
      BY DEF PStates, BodyStates
    <3>5. Kept(m, u) /\ Is(u, "CHUNKED", 0)
      BY <2>1, <3>4, BegunKept
    <3>6. Idle(u)
      BY <1>6, <3>5 DEF Idle, Kept, Placed
    <3> HIDE DEF u, t
    <3>7. f \in B /\ f \in Nat /\ f + 5 <= Len(o)
      <4>1. f \in B
        BY <1>2
      <4> HIDE DEF f
      <4> QED BY <1>1, <4>1, SizeLineFacts
    <3>8. c + 1 = f
      BY <1>3, <2>3
    <3> HIDE DEF f
    <3>9. InSize(u, f, c + 1)
      <4>1. f \in f .. f + 2 /\ 0 = f - f
        BY <3>7
      <4>2. InSize(u, f, f)
        BY <3>5, <3>6, <4>1 DEF InSize, Is
      <4> QED BY <3>8, <4>2
    <3>10. c + 1 < Len(o)
      BY <1>1, <3>7, <3>8
    <3> QED BY <3>3, <3>5, <3>7, <3>9, <3>10, IdleGoesOn
  <2>4. c = b + 3 + n \/ c = b + 4 + n
    BY <1>1, <1>3, <1>6
  <2> QED BY <2>2, <2>3, <2>4
<1> QED BY <1>2, <1>5, <1>6

LEMMA ChunkRounds ==
  ASSUME NEW r, NEW h, NEW c, BodyRound(r, h, c), Chunks(m, r.octets, h, c)
  PROVE  \E k \in 1..Avail : Result(r, h, c, k)
<1>1. PICK B \in SUBSET SizeLines(r.octets, h) : ChunksAt(r.octets, B) /\ \E b \in B :
        InSize(m, b, c) \/ InData(m, r.octets, B, b, c) \/ InLast(m, r.octets, b, c)
  BY DEF Chunks
<1>2. PICK b \in B : InSize(m, b, c) \/ InData(m, r.octets, B, b, c) \/ InLast(m, r.octets, b, c)
  BY <1>1
<1> QED BY <1>1, <1>2, SizeRounds, DataRounds, LastRounds

-----------------------------------------------------------------------------
(* The octets of a stream, response by response. *)

\* The functions FlattenSeq is defined by agree where their sequences do.
Agree(f, g, k) == \A i \in 1..k : f[i] = g[i]

LEMMA FlattenAgrees ==
  ASSUME NEW s, NEW u, NEW n \in Nat, NEW k \in Nat, k <= n, NEW f, NEW g,
         Flattened(s, n, f), Flattened(u, k, g), Agree(s, u, k)
  PROVE  Agree(f, g, k)
<1>a. \A i \in 1..k : s[i] = u[i]
  BY DEF Agree
<1> DEFINE Bad == {i \in Nat : i \in 1..k /\ f[i] # g[i]}
<1>1. CASE Bad = {}
  <2>1. \A i \in 1..k : i \in Nat
    OBVIOUS
  <2> QED BY <1>1, <2>1 DEF Agree
<1>2. CASE Bad # {}
  <2>1. PICK b \in Bad : \A j \in Bad : b <= j
    <3>1. Bad \in SUBSET Nat
      OBVIOUS
    <3> HIDE DEF Bad
    <3> QED BY <1>2, <3>1, Smallest
  <2>2. b \in Nat /\ b \in 1..k /\ b \in 1..n /\ f[b] # g[b]
    BY <2>1
  <2>3. f[b] = IF b = 1 THEN s[b] ELSE f[b - 1] \o s[b]
    BY <2>2 DEF Flattened
  <2>4. g[b] = IF b = 1 THEN u[b] ELSE g[b - 1] \o u[b]
    BY <2>2 DEF Flattened
  <2>5. b # 1
    BY <1>a, <2>2, <2>3, <2>4
  <2>6. b - 1 \in Nat /\ b - 1 \in 1..k /\ b - 1 \notin Bad
    BY <2>1, <2>2, <2>5
  <2>7. f[b - 1] = g[b - 1]
    BY <2>6
  <2> QED BY <1>a, <2>2, <2>3, <2>4, <2>5, <2>7
<1> QED BY <1>1, <1>2

LEMMA FlattenIs ==
  ASSUME NEW s, NEW n \in Nat, n = Len(s), n # 0
  PROVE  \E f : Flattened(s, n, f) /\ FlattenSeq(s) = f[n]
<1> DEFINE f == CHOOSE g : Flattened(s, n, g)
<1>1. FlattenSeq(s) = f[n]
  BY Zenon DEF FlattenSeq, Flattened
<1>2. Flattened(s, n, f)
  BY FlattenExists
<1> QED BY <1>1, <1>2

\* One sequence more.
LEMMA FlattenGrows ==
  ASSUME NEW T, NEW s \in Seq(Seq(T)), NEW u \in Seq(Seq(T)), NEW k \in Nat, k = Len(s), Len(u) = k + 1,
         \A i \in 1..k : u[i] = s[i]
  PROVE  FlattenSeq(u) = FlattenSeq(s) \o u[k + 1]
<1> DEFINE n == k + 1
<1>1. n \in Nat /\ n # 0 /\ n = Len(u)
  OBVIOUS
<1>2. PICK f : Flattened(u, n, f) /\ FlattenSeq(u) = f[n]
  <2> HIDE DEF n
  <2> QED BY <1>1, FlattenIs
<1>3. f[n] = IF n = 1 THEN u[n] ELSE f[n - 1] \o u[n]
  <2>1. n \in 1..n
    OBVIOUS
  <2> HIDE DEF n
  <2> QED BY <1>2, <2>1 DEF Flattened
<1>4. CASE k = 0
  <2>1. FlattenSeq(s) = s
    BY <1>4, Zenon DEF FlattenSeq
  <2>2. s = <<>>
    BY <1>4, EmptySeq
  <2>3. u[n] \in Seq(T)
    BY <1>1
  <2>4. <<>> \o u[n] = u[n]
    BY <2>3, ConcatEmptySeq
  <2> QED BY <1>2, <1>3, <1>4, <2>1, <2>2, <2>4
<1>5. CASE k # 0
  <2>1. PICK g : Flattened(s, k, g) /\ FlattenSeq(s) = g[k]
    BY <1>5, FlattenIs
  <2>2. k \in 0..n /\ k \in 1..k /\ n # 1 /\ n - 1 = k
    BY <1>5
  <2> HIDE DEF n
  <2>f. Flattened(u, n, f)
    BY <1>2
  <2>g. Flattened(s, k, g)
    BY <2>1
  <2>3. Agree(f, g, k)
    <3>1. Agree(u, s, k)
      BY DEF Agree
    <3>2. n \in Nat /\ k <= n
      BY <1>1, <2>2
    <3> QED BY <3>1, <3>2, <2>f, <2>g, FlattenAgrees
  <2>4. f[k] = g[k]
    BY <2>2, <2>3 DEF Agree
  <2> QED BY <1>2, <1>3, <2>1, <2>2, <2>4 DEF n
<1> QED BY <1>4, <1>5

LEMMA OctetSeqs ==
  ASSUME NEW s \in Seq(Responses)
  PROVE  LET o == [i \in DOMAIN s |-> s[i].octets]
         IN  o \in Seq(Seq(Octets)) /\ Len(o) = Len(s) /\ \A i \in 1..Len(s) : o[i] = s[i].octets
<1> DEFINE o == [i \in DOMAIN s |-> s[i].octets]
<1>1. DOMAIN s = 1..Len(s) /\ Len(s) \in Nat /\ \A i \in 1..Len(s) : s[i] \in Responses
  OBVIOUS
<1>2. \A i \in 1..Len(s) : s[i].octets \in Seq(Octets)
  BY <1>1 DEF Responses
<1>3. o = [i \in 1..Len(s) |-> s[i].octets]
  BY <1>1
<1> QED BY <1>1, <1>2, <1>3

\* The first responses of a stream.
LEMMA FirstOnes ==
  ASSUME NEW s \in Streams, NEW k \in 0..Len(s)
  PROVE  LET a == SubSeq(s, 1, k)
         IN  a \in Seq(Responses) /\ Len(a) = k /\ \A i \in 1..k : a[i] = s[i] /\ s[i] \in Responses
<1>1. s \in Seq(Responses)
  BY ParserAssumption
<1>2. Len(s) \in Nat /\ k \in Nat /\ k <= Len(s) /\ \A i \in 1..Len(s) : s[i] \in Responses
  BY <1>1
<1>3. \A i \in 1..k : s[i] \in Responses
  BY <1>2
<1>4. 1 \in Int /\ k \in Int
  BY <1>2
<1> DEFINE a == SubSeq(s, 1, k)
<1>5. a \in Seq(Responses) /\ Len(a) = (IF 1 <= k THEN k - 1 + 1 ELSE 0) /\ \A i \in 1..k - 1 + 1 : a[i] = s[1 + i - 1]
  BY <1>3, <1>4, SubSeqProperties
<1> HIDE DEF a
<1>6. Len(a) = k /\ \A i \in 1..k : a[i] = s[i]
  <2>1. Len(a) = k /\ k - 1 + 1 = k
    BY <1>2, <1>5
  <2>2. ASSUME NEW i \in 1..k PROVE a[i] = s[i]
    <3>1. i \in 1..k - 1 + 1 /\ 1 + i - 1 = i
      BY <1>2
    <3>2. a[i] = s[1 + i - 1]
      BY <1>5, <3>1
    <3> QED BY <3>1, <3>2
  <2> QED BY <2>1, <2>2
<1> QED BY <1>3, <1>5, <1>6 DEF a

LEMMA UptoType ==
  ASSUME NEW s \in Streams, NEW k \in 0..Len(s)
  PROVE  Upto(s, k) \in Seq(Octets) /\ Len(Upto(s, k)) \in Nat
<1>1. SubSeq(s, 1, k) \in Seq(Responses)
  BY FirstOnes
<1> DEFINE a == SubSeq(s, 1, k)
           o == [i \in DOMAIN a |-> a[i].octets]
<1>2. o \in Seq(Seq(Octets))
  <2> HIDE DEF a
  <2> QED BY <1>1, OctetSeqs DEF a
<1>3. FlattenSeq(o) \in Seq(Octets)
  <2> HIDE DEF o
  <2> QED BY <1>2, FlattenType
<1>4. Upto(s, k) \in Seq(Octets)
  BY <1>3 DEF Upto, OctetsOf
<1> QED BY <1>4

LEMMA UptoNext ==
  ASSUME NEW s \in Streams, NEW k \in 0 .. Len(s) - 1
  PROVE  Upto(s, k + 1) = Upto(s, k) \o s[k + 1].octets
<1>1. Len(s) \in Nat
  BY ParserAssumption
<1>2. k \in 0..Len(s) /\ k + 1 \in 0..Len(s) /\ k \in Nat /\ k + 1 \in 1..k + 1
  BY <1>1
<1> DEFINE a == SubSeq(s, 1, k)
           b == SubSeq(s, 1, k + 1)
           x == [i \in DOMAIN a |-> a[i].octets]
           y == [i \in DOMAIN b |-> b[i].octets]
<1>3. a \in Seq(Responses) /\ Len(a) = k /\ \A i \in 1..k : a[i] = s[i]
  BY <1>2, FirstOnes
<1>4. b \in Seq(Responses) /\ Len(b) = k + 1 /\ \A i \in 1..k + 1 : b[i] = s[i]
  BY <1>2, FirstOnes
<1>5. Upto(s, k) = FlattenSeq(x) /\ Upto(s, k + 1) = FlattenSeq(y)
  BY DEF Upto, OctetsOf
<1> HIDE DEF a, b
<1>6. x \in Seq(Seq(Octets)) /\ Len(x) = k /\ \A i \in 1..k : x[i] = a[i].octets
  BY <1>3, OctetSeqs
<1>7. y \in Seq(Seq(Octets)) /\ Len(y) = k + 1 /\ \A i \in 1..k + 1 : y[i] = b[i].octets
  BY <1>4, OctetSeqs
<1> HIDE DEF x, y
<1>8. \A i \in 1..k : i \in 1..k + 1
  BY <1>2
<1>9. \A i \in 1..k : y[i] = x[i]
  BY <1>3, <1>4, <1>6, <1>7, <1>8
<1>10. y[k + 1] = s[k + 1].octets
  BY <1>2, <1>4, <1>7
<1>11. FlattenSeq(y) = FlattenSeq(x) \o y[k + 1]
  <2>1. x \in Seq(Seq(Octets)) /\ y \in Seq(Seq(Octets))
    BY <1>6, <1>7
  <2>2. k = Len(x) /\ Len(y) = k + 1 /\ k \in Nat
    BY <1>2, <1>6, <1>7
  <2> QED BY <1>9, <2>1, <2>2, FlattenGrows
<1> QED BY <1>5, <1>10, <1>11

LEMMA UptoEnds ==
  ASSUME NEW s \in Streams
  PROVE  Len(Upto(s, 0)) = 0 /\ Upto(s, Len(s)) = OctetsOf(s)
<1>1. s \in Seq(Responses) /\ Len(s) \in Nat
  BY ParserAssumption
<1>2. SubSeq(s, 1, Len(s)) = s
  BY <1>1, SubSeqFull
<1>3. Upto(s, Len(s)) = OctetsOf(s)
  BY <1>2 DEF Upto
<1>4. SubSeq(s, 1, 0) \in Seq(Responses) /\ Len(SubSeq(s, 1, 0)) = 0
  BY <1>1, FirstOnes
<1> DEFINE a == SubSeq(s, 1, 0)
           x == [i \in DOMAIN a |-> a[i].octets]
<1>5. Len(x) = 0
  <2> HIDE DEF a
  <2> QED BY <1>4, OctetSeqs DEF a
<1>6. FlattenSeq(x) = x
  <2> HIDE DEF x
  <2> QED BY <1>5, Zenon DEF FlattenSeq
<1> QED BY <1>3, <1>5, <1>6 DEF Upto, OctetsOf

\* What the first responses are stays at the front.
UptoIn(s, k, n) == /\ Len(Upto(s, k)) <= Len(Upto(s, n))
                   /\ \A i \in 1..Len(Upto(s, k)) : Upto(s, n)[i] = Upto(s, k)[i]

LEMMA UptoPrefix ==
  ASSUME NEW s \in Streams, NEW k \in 0..Len(s), NEW n \in k..Len(s)
  PROVE  UptoIn(s, k, n)
<1>1. Len(s) \in Nat /\ k \in Nat /\ n \in Nat
  BY ParserAssumption
<1> DEFINE Bad == {i \in Nat : i \in k..Len(s) /\ ~UptoIn(s, k, i)}
<1>2. CASE Bad = {}
  BY <1>1, <1>2
<1>3. CASE Bad # {}
  <2>1. PICK b \in Bad : \A j \in Bad : b <= j
    <3>1. Bad \in SUBSET Nat
      OBVIOUS
    <3> HIDE DEF Bad
    <3> QED BY <1>3, <3>1, Smallest
  <2>2. b \in Nat /\ k <= b /\ b <= Len(s) /\ ~UptoIn(s, k, b)
    BY <1>1, <2>1
  <2>3. b # k
    <3>1. Len(Upto(s, k)) \in Nat
      BY UptoType
    <3>2. UptoIn(s, k, k)
      BY <3>1 DEF UptoIn
    <3> QED BY <2>2, <3>2
  <2> DEFINE a == b - 1
  <2>4. a \in Nat /\ a \in k..Len(s) /\ a \in 0 .. Len(s) - 1 /\ a \notin Bad /\ a + 1 = b /\ a \in 0..Len(s)
        /\ b \in 0..Len(s)
    BY <1>1, <2>1, <2>2, <2>3
  <2>5. UptoIn(s, k, a)
    BY <2>4
  <2> HIDE DEF a
  <2>6. Upto(s, b) = Upto(s, a) \o s[b].octets
    BY <2>4, UptoNext
  <2> DEFINE x == Upto(s, a)
             y == s[b].octets
             z == Upto(s, k)
  <2>7. x \in Seq(Octets) /\ Len(x) \in Nat /\ z \in Seq(Octets) /\ Len(z) \in Nat
    BY <2>4, UptoType
  <2>8. y \in Seq(Octets)
    <3>1. b \in 1..b
      BY <2>4
    <3>2. s[b] \in Responses
      BY <2>4, <3>1, FirstOnes
    <3> QED BY <3>2 DEF Responses
  <2>9. Len(z) <= Len(x) /\ \A i \in 1..Len(z) : x[i] = z[i]
    BY <2>5 DEF UptoIn
  <2>10. Upto(s, b) = x \o y
    BY <2>6
  <2> HIDE DEF x, y, z
  <2>11. Len(x \o y) = Len(x) + Len(y) /\ Len(y) \in Nat /\ \A i \in 1..Len(x) : (x \o y)[i] = x[i]
    BY <2>7, <2>8
  <2>12. Len(z) <= Len(x \o y) /\ \A i \in 1..Len(z) : (x \o y)[i] = z[i]
    <3>1. \A i \in 1..Len(z) : i \in 1..Len(x)
      BY <2>7, <2>9
    <3> QED BY <2>7, <2>9, <2>11, <3>1
  <2>13. UptoIn(s, k, b)
    BY <2>10, <2>12 DEF UptoIn, z
  <2> QED BY <2>2, <2>13
<1> QED BY <1>2, <1>3

\* Where a response is in its stream.
Placing(s, k, o, a) ==
  /\ o \in Seq(Octets) /\ o # <<>> /\ Len(o) \in Nat /\ Len(o) > 0 /\ a \in Nat
  /\ Len(Upto(s, k + 1)) = a + Len(o) /\ a + Len(o) <= Len(OctetsOf(s))
  /\ \A i \in 1..Len(o) : OctetsOf(s)[a + i] = o[i]

LEMMA PlaceInStream ==
  ASSUME NEW s \in Streams, NEW k \in 0 .. Len(s) - 1
  PROVE  Placing(s, k, s[k + 1].octets, Len(Upto(s, k)))
<1> DEFINE o == s[k + 1].octets
           a == Len(Upto(s, k))
           x == Upto(s, k)
           y == Upto(s, k + 1)
           w == OctetsOf(s)
<1>1. Len(s) \in Nat /\ k \in Nat
  BY ParserAssumption
<1>2. k \in 0..Len(s) /\ k + 1 \in 0..Len(s) /\ Len(s) \in k + 1 .. Len(s) /\ k + 1 \in 1..k + 1
  BY <1>1
<1>3. o \in Seq(Octets) /\ o # <<>>
  <2>1. s[k + 1] \in Responses
    BY <1>2, FirstOnes
  <2> QED BY <2>1 DEF Responses
<1>4. x \in Seq(Octets) /\ a \in Nat /\ y \in Seq(Octets) /\ w \in Seq(Octets)
  BY <1>2, UptoType, StreamType
<1>5. y = x \o o
  BY UptoNext
<1>6. Len(y) <= Len(w) /\ \A i \in 1..Len(y) : w[i] = y[i]
  <2>1. UptoIn(s, k + 1, Len(s))
    BY <1>2, UptoPrefix
  <2> QED BY <2>1, UptoEnds DEF UptoIn
<1>7. a = Len(x)
  OBVIOUS
<1> HIDE DEF o, a, x, y, w
<1>8. Len(o) \in Nat /\ Len(o) > 0
  BY <1>3
<1>9. Len(y) = a + Len(o) /\ \A i \in 1..Len(o) : y[a + i] = o[i]
  <2>1. Len(x \o o) = Len(x) + Len(o) /\ \A j \in 1..Len(x) + Len(o) : (x \o o)[j] = IF j <= Len(x) THEN x[j] ELSE o[j - Len(x)]
    BY <1>3, <1>4, ConcatProperties
  <2>2. ASSUME NEW i \in 1..Len(o) PROVE y[a + i] = o[i]
    <3>1. a + i \in 1..Len(x) + Len(o) /\ ~(a + i <= Len(x)) /\ (a + i) - Len(x) = i
      BY <1>4, <1>7, <1>8
    <3> QED BY <1>5, <2>1, <3>1
  <2> QED BY <1>5, <1>7, <2>1, <2>2
<1>10. \A i \in 1..Len(o) : w[a + i] = o[i]
  <2>1. ASSUME NEW i \in 1..Len(o) PROVE w[a + i] = o[i]
    <3>1. a + i \in 1..Len(y)
      BY <1>4, <1>8, <1>9
    <3> QED BY <1>6, <1>9, <3>1
  <2> QED BY <2>1
<1>11. a + Len(o) <= Len(w)
  BY <1>6, <1>9
<1> QED BY <1>3, <1>4, <1>8, <1>9, <1>10, <1>11 DEF Placing, o, a, x, y, w

-----------------------------------------------------------------------------
(* A round of the parser, wherever it is in the stream. *)

AllReadable == \A s \in Streams : Readable(s) /\ Unmoved(s)

Onward == ParserInv /\ rcode = "NONE" /\ Going(stream, size, driver, rx, state_m, num_reqs, fin_resp)

\* The response the parser is in, and the octets of it that are behind it.
Current == stream[fin_resp + 1]
Start   == Len(Upto(stream, fin_resp))
Here    == Passed(size, rx, state_m) - Start

LEMMA OnwardFacts ==
  ASSUME Onward
  PROVE  /\ stream \in Streams /\ Len(stream) \in Nat /\ Len(stream) < U32_MOD /\ U32_MOD \in Nat
         /\ fin_resp \in Nat /\ fin_resp \in 0..Len(stream) /\ num_reqs = Len(stream) - fin_resp
         /\ size \in Nat /\ rx \in Seq(Octets) /\ Len(rx) \in Nat /\ Len(OctetsOf(stream)) \in Nat /\ Start \in Nat
         /\ m \in StateM /\ Plain(m, NON_BLOCK) /\ m = state_m /\ Avail = Len(m.buff) - m.buf_idx
         /\ m.buf_idx \in Nat /\ Len(m.buff) \in Nat /\ m.buf_idx <= Len(m.buff) /\ Avail \in Nat
         /\ Passed(size, rx, m) = size - Len(rx) - Avail
         /\ Sees(stream, size, rx, m) /\ Counts(stream, driver, num_reqs, fin_resp)
         /\ Start <= Passed(size, rx, m) /\ Passed(size, rx, m) \in Int /\ Here = Passed(size, rx, m) - Start
         /\ fin_resp < Len(stream) => Amid(m, Current, Here)
<1>1. /\ Typed /\ Good(state_m) /\ Going(stream, size, driver, rx, m, num_reqs, fin_resp) /\ m = state_m
  BY DEF Onward, ParserInv, m
<1>2. /\ stream \in Streams /\ size \in Nat /\ rx \in Seq(Octets) /\ fin_resp \in Nat
  BY <1>1 DEF Typed
<1>3. Len(stream) \in Nat /\ Len(stream) < U32_MOD /\ U32_MOD \in Nat
  BY <1>2, ParserAssumption
<1>4. Plain(m, NON_BLOCK) /\ m \in StateM /\ Ordered(m)
  BY <1>1 DEF Good, Plain
<1>5. m.buf_idx \in Nat /\ Len(m.buff) \in Nat /\ m.buf_idx <= Len(m.buff)
  BY <1>4 DEF StateM, Ordered
<1>6. Avail = Len(m.buff) - m.buf_idx /\ Avail \in Nat
  BY <1>5 DEF Avail
<1>7. /\ Sees(stream, size, rx, m) /\ Counts(stream, driver, num_reqs, fin_resp)
      /\ Start <= Passed(size, rx, m) /\ (fin_resp < Len(stream) => Amid(m, Current, Here))
  BY <1>1 DEF Going, Start, Current, Here
<1>8. fin_resp \in 0..Len(stream) /\ num_reqs = Len(stream) - fin_resp
  BY <1>2, <1>3, <1>7 DEF Counts
<1>9. Len(OctetsOf(stream)) \in Nat /\ Start \in Nat
  BY <1>2, <1>8, StreamType, UptoType DEF Start
<1>10. Len(rx) \in Nat
  BY <1>2
<1>11. Passed(size, rx, m) = size - Len(rx) - Avail /\ Passed(size, rx, m) \in Int
  BY <1>2, <1>5, <1>6, <1>10 DEF Passed
<1>12. Here = Passed(size, rx, m) - Start
  BY <1>1 DEF Here
<1> QED BY <1>1, <1>2, <1>3, <1>4, <1>5, <1>6, <1>7, <1>8, <1>9, <1>10, <1>11, <1>12

\* Where the current response is.
LEMMA CurrentFacts ==
  ASSUME Onward, fin_resp < Len(stream)
  PROVE  /\ Placing(stream, fin_resp, Current.octets, Start) /\ Current \in Responses
         /\ Here \in Nat /\ Here < Len(Current.octets) /\ Passed(size, rx, m) = Start + Here
         /\ fin_resp + 1 \in 1..Len(stream) /\ fin_resp \in 0 .. Len(stream) - 1
<1>1. fin_resp \in 0 .. Len(stream) - 1 /\ fin_resp + 1 \in 1..Len(stream) /\ stream \in Streams
  <2> DEFINE n == Len(stream)
             f == fin_resp
  <2>1. n \in Nat /\ f \in Nat /\ f < n
    BY OnwardFacts
  <2>2. stream \in Streams
    BY OnwardFacts
  <2> HIDE DEF n, f
  <2>3. f \in 0 .. n - 1 /\ f + 1 \in 1..n
    BY <2>1
  <2> QED BY <2>2, <2>3 DEF n, f
<1>2. Placing(stream, fin_resp, Current.octets, Start)
  BY <1>1, PlaceInStream DEF Current, Start
<1>3. Current \in Responses
  BY <1>1, ParserAssumption DEF Current
<1>4. Here < Len(Current.octets)
  BY OnwardFacts DEF Amid
<1>5. Here \in Nat /\ Passed(size, rx, m) = Start + Here
  <2>1. Start \in Nat /\ Passed(size, rx, m) \in Int /\ Start <= Passed(size, rx, m) /\ Here = Passed(size, rx, m) - Start
    BY OnwardFacts
  <2> QED BY <2>1
<1> QED BY <1>1, <1>2, <1>3, <1>4, <1>5

\* k octets more are behind u than behind t.
Forward(t, u, k) == /\ t.buf_idx \in Nat /\ Len(t.buff) \in Nat /\ k \in 1 .. Len(t.buff) - t.buf_idx
                    /\ u.buff = t.buff /\ u.buf_idx = t.buf_idx + k
PassedOn(z, x, t, u, k) == Passed(z, x, u) = Passed(z, x, t) + k

LEMMA SeesOn ==
  ASSUME NEW s, NEW z \in Nat, NEW x, Len(x) \in Nat, NEW t, NEW u, NEW k, Sees(s, z, x, t), Forward(t, u, k)
  PROVE  Sees(s, z, x, u) /\ PassedOn(z, x, t, u, k)
<1> DEFINE p == Passed(z, x, t)
           q == Passed(z, x, u)
           b == t.buf_idx
           l == Len(t.buff)
           n == Len(x)
           w == OctetsOf(s)
<1>1. b \in Nat /\ l \in Nat /\ n \in Nat /\ k \in 1 .. l - b /\ p = (z - n) - (l - b) /\ q = (z - n) - (l - (b + k))
  BY DEF Passed, Forward
<1>2. \A i \in 1 .. l - b : t.buff[b + i] = w[p + i]
  BY DEF Sees
<1>3. Len(u.buff) = l /\ u.buf_idx = b + k /\ u.buff = t.buff
  BY DEF Forward
<1> HIDE DEF p, q, b, l, n, w
<1>4. q = p + k /\ p \in Int
  BY <1>1
<1>5. ASSUME NEW i \in 1 .. l - (b + k) PROVE t.buff[(b + k) + i] = w[q + i]
  <2>1. k + i \in 1 .. l - b /\ (b + k) + i = b + (k + i) /\ q + i = p + (k + i)
    BY <1>1, <1>4
  <2> QED BY <1>2, <2>1
<1>6. \A i \in 1 .. Len(u.buff) - u.buf_idx : u.buff[u.buf_idx + i] = OctetsOf(s)[Passed(z, x, u) + i]
  BY <1>3, <1>5 DEF w, q
<1> QED BY <1>3, <1>4, <1>6 DEF Sees, PassedOn, p, q

LEMMA RoundLeads ==
  ASSUME Onward, http_resp_parser
  PROVE  /\ fin_resp < Len(stream)
         /\ \E h \in 1 .. Len(Current.octets) :
              ResponseAt(Current, h) /\ \E k \in 1..Avail : Result(Current, h, Here, k)
<1> DEFINE r == Current
           c == Here
<1>1. ParserInv /\ Avail \in Nat /\ Avail > 0
  <2>1. Round
    BY DEF http_resp_parser, SkipAll, EndBody, EndChunk, OnCR, OnLF, OnSP, OnColon, OnOther, InHeader
  <2> QED BY <2>1, OnwardFacts DEF Round, Onward
<1>2. fin_resp < Len(stream)
  <2>1. SUFFICES ASSUME fin_resp = Len(stream) PROVE FALSE
    BY OnwardFacts
  <2>2. Start = Len(OctetsOf(stream))
    BY <2>1, OnwardFacts, UptoEnds DEF Start
  <2>3. size <= Len(OctetsOf(stream))
    BY OnwardFacts DEF Sees
  <2> QED BY <1>1, <2>2, <2>3, OnwardFacts
<1>3. PICK h \in 1 .. Len(r.octets) : ResponseAt(r, h) /\ c < Len(r.octets) /\ Tracks(m, r, h, c)
  BY <1>2, OnwardFacts DEF Amid
<1>4. Placing(stream, fin_resp, r.octets, Start) /\ r \in Responses /\ c \in Nat /\ Passed(size, rx, m) = Start + c
  BY <1>2, CurrentFacts
<1>5. ASSUME NEW i \in 1..Avail, c + i <= Len(r.octets) PROVE m.buff[m.buf_idx + i] = r.octets[c + i]
  <2>1. m.buff[m.buf_idx + i] = OctetsOf(stream)[Passed(size, rx, m) + i]
    BY OnwardFacts DEF Sees
  <2> DEFINE o == r.octets
             w == OctetsOf(stream)
             a == Start
             p == Passed(size, rx, m)
  <2>2. a \in Nat /\ \A j \in 1..Len(o) : w[a + j] = o[j]
    BY <1>4 DEF Placing
  <2>3. c \in Nat /\ i \in Nat /\ i >= 1 /\ p = a + c /\ Len(o) \in Nat /\ c + i <= Len(o)
    BY <1>1, <1>4, <1>5 DEF Placing
  <2> HIDE DEF o, w, a, p, c
  <2>4. c + i \in 1..Len(o) /\ p + i = a + (c + i)
    BY <2>2, <2>3
  <2> QED BY <2>1, <2>2, <2>4 DEF o, w, p
<1>6. 1 \in 1..Avail
  BY <1>1
<1>7. CASE InHead(m, r.octets, h, c)
  <2>1. c + 1 <= Len(r.octets)
    BY <1>3, <1>4 DEF Placing
  <2>2. Octet = r.octets[c + 1]
    BY <1>5, <1>6, <2>1 DEF Octet
  <2>3. HeadRound(r, h, c)
    BY <1>1, <1>3, <1>4, <1>7, <2>2 DEF HeadRound
  <2> HIDE DEF r, c
  <2>4. Result(r, h, c, 1)
    BY <2>3, HeadRounds
  <2> QED BY <1>2, <1>3, <1>6, <2>4 DEF r, c
<1>8. CASE (SizedRest(m, r.octets, h, c) \/ Chunks(m, r.octets, h, c)) /\ Ends(m, r)
  <2>1. BodyRound(r, h, c)
    BY <1>1, <1>3, <1>4, <1>5, <1>8 DEF BodyRound, ResponseAt
  <2> HIDE DEF r, c
  <2>2. \E k \in 1..Avail : Result(r, h, c, k)
    BY <1>8, <2>1, SizedRounds, ChunkRounds
  <2> QED BY <1>2, <1>3, <2>2 DEF r, c
<1> QED BY <1>3, <1>7, <1>8 DEF Tracks

\* In front of a response.
LEMMA NewResponse ==
  ASSUME NEW u, u.buf_idx = u.last_fin_idx, u.last_fin_idx \in Nat, u.resp = NoHeader, Is(u, "VER", 0), NoBody(u),
         NEW o \in Seq(Octets), NEW h, HeadAt(o, h)
  PROVE  InHead(u, o, h, 0)
<1>1. u.resp.msg_hdr_len = 0 /\ u.resp.is_close = FALSE /\ u.resp.dirty = {}
  BY DEF NoHeader
<1>2. Behind(u, o, 0)
  BY DEF Behind
<1>3. 0 < h /\ ~(0 >= 4)
  BY HeadFacts
<1>4. Table(u, o, h, 0, 0)
  <2>1. Known(o, h, 0) = {}
    BY NoneKnown
  <2>2. \A y \in Fields(o, h) : ~(y < 0)
    BY HeadFacts
  <2> QED BY <1>1, <2>1, <2>2 DEF Table
<1>5. \E e \in LineEnds(o, h) : StatusAt(o, e) /\ 0 <= e - 2
  <2>1. PICK e \in LineEnds(o, h) : StatusAt(o, e)
    BY DEF HeadAt
  <2>2. 6 <= e /\ e \in Nat
    BY <2>1, HeadFacts DEF StatusAt
  <2> QED BY <2>1, <2>2
<1>6. InStatus(u, o, h, 0)
  BY <1>4, <1>5 DEF InStatus
<1> QED BY <1>1, <1>2, <1>3, <1>6 DEF InHead

LEMMA NewAmid ==
  ASSUME AllReadable, stream \in Streams, NEW k \in 0 .. Len(stream) - 1, NEW u,
         u.buf_idx = u.last_fin_idx, u.last_fin_idx \in Nat, u.resp = NoHeader, Is(u, "VER", 0), NoBody(u)
  PROVE  Amid(u, stream[k + 1], 0)
<1> DEFINE r == stream[k + 1]
<1>1. k + 1 \in 1..Len(stream) /\ stream \in Seq(Responses)
  BY ParserAssumption
<1>2. PICK h \in 1 .. Len(r.octets) : ResponseAt(r, h)
  BY <1>1 DEF AllReadable, Readable
<1>3. r \in Responses
  BY <1>1
<1>4. r.octets \in Seq(Octets) /\ r.octets # <<>> /\ HeadAt(r.octets, h)
  BY <1>2, <1>3 DEF Responses, ResponseAt
<1>5. 0 < Len(r.octets)
  BY <1>4, EmptySeq
<1> HIDE DEF r
<1>6. InHead(u, r.octets, h, 0)
  BY <1>4, NewResponse
<1>7. Amid(u, r, 0)
  BY <1>2, <1>5, <1>6 DEF Amid, Tracks
<1> QED BY <1>7 DEF r

LEMMA GoOnLeads ==
  ASSUME Onward, UNCHANGED <<given, rx>>, fin_resp < Len(stream),
         NEW h \in 1 .. Len(Current.octets), ResponseAt(Current, h), NEW k \in 1..Avail,
         NEW t, GoOn(t), Ahead(t, k), Tracks(t, Current, h, Here + k), Here + k < Len(Current.octets)
  PROVE  StreamInv' /\ fin_resp' # fin_resp + 1
<1> DEFINE p == Passed(size, rx, m)
           q == Passed(size, rx, t)
<1>1. /\ fin_resp \in Nat /\ size \in Nat /\ Len(rx) \in Nat /\ m.buf_idx \in Nat /\ Len(m.buff) \in Nat
      /\ Avail = Len(m.buff) - m.buf_idx /\ Sees(stream, size, rx, m)
      /\ Counts(stream, driver, num_reqs, fin_resp) /\ Start \in Nat /\ Here \in Nat /\ p = Start + Here
      /\ Avail \in Nat
  BY OnwardFacts, CurrentFacts
<1>2. t.buff = m.buff /\ t.buf_idx = m.buf_idx + k
  BY DEF Ahead
<1>3. Sees(stream, size, rx, t) /\ q = p + k
  <2>1. Forward(m, t, k)
    BY <1>1, <1>2 DEF Forward
  <2>2. Sees(stream, size, rx, m)
    BY <1>1
  <2>z. size \in Nat
    BY <1>1
  <2>x. Len(rx) \in Nat
    BY <1>1
  <2> HIDE DEF p, q
  <2>3. Sees(stream, size, rx, t)
    BY <2>1, <2>2, <2>z, <2>x, SeesOn
  <2>4. PassedOn(size, rx, m, t, k)
    BY <2>1, <2>2, <2>z, <2>x, SeesOn
  <2> QED BY <2>3, <2>4 DEF PassedOn, p, q
<1> HIDE DEF p, q
<1>4. Start <= q /\ q - Start = Here + k
  BY <1>1, <1>3
<1>5. Amid(t, Current, q - Start)
  BY <1>4 DEF Amid
<1>6. Going(stream, size, driver, rx, t, num_reqs, fin_resp)
  BY <1>1, <1>3, <1>4, <1>5 DEF Going, Start, Current, q
<1>7. /\ stream' = stream /\ size' = size /\ driver' = driver /\ rx' = rx /\ state_m' = t
      /\ num_reqs' = num_reqs /\ fin_resp' = fin_resp /\ rcode' = "NONE"
  BY DEF GoOn, given, calls, Onward
<1>8. StreamInv'
  BY <1>6, <1>7 DEF StreamInv
<1> QED BY <1>1, <1>7, <1>8

LEMMA ReturnLeads ==
  ASSUME Onward, UNCHANGED <<given, rx>>, fin_resp < Len(stream),
         NEW t, Return(t, Current.verdict), Current.verdict \notin {"FIN", "CLOSE"}
  PROVE  StreamInv' /\ fin_resp' # fin_resp + 1
<1> DEFINE v == Current.verdict
<1>1. Current \in Responses /\ fin_resp \in Nat /\ fin_resp + 1 \in 1..Len(stream)
  BY OnwardFacts, CurrentFacts
<1>2. v \in {"REDIRECT", "CLIENT_ERR", "SERVER_ERR", "NOT_SUPPORT"}
  BY <1>1 DEF Responses
<1>3. /\ stream' = stream /\ driver' = driver /\ fin_resp' = fin_resp
      /\ rcode' = IF NON_BLOCK /\ v = "NOT_SUPPORT" THEN "ERROR" ELSE v
  BY DEF Return, given
<1>4. Meant'[fin_resp + 1] = IF NON_BLOCK /\ v = "NOT_SUPPORT" THEN "ERROR" ELSE v
  <2>1. Meant'[fin_resp + 1] = CASE ~NON_BLOCK /\ v = "CLOSE"      -> "FIN"
                                [] NON_BLOCK /\ v = "NOT_SUPPORT" -> "ERROR"
                                [] OTHER -> v
    BY <1>1, <1>3 DEF Meant, NON_BLOCK, Current
  <2> HIDE DEF v
  <2> QED BY <1>2, <2>1
<1> HIDE DEF v
<1>5. rcode' \notin {"NONE", "FIN", "POLL_DATA", "CLOSE"}
  BY <1>2, <1>3
<1>6. Verdict'
  BY <1>3, <1>4, <1>5 DEF Verdict
<1> QED BY <1>1, <1>3, <1>5, <1>6 DEF StreamInv

LEMMA NextFields ==
  ASSUME NEW t, NextResponse(t) \in StateM
  PROVE  LET u == NextResponse(t)
         IN  /\ u.buff = t.buff /\ u.buf_idx = t.buf_idx /\ u.last_fin_idx = t.buf_idx /\ u.resp = NoHeader
             /\ Is(u, "VER", 0) /\ NoBody(u)
<1>1. DOMAIN NextResponse(t) = DOMAIN t
  BY DEF NextResponse
<1>2. DOMAIN NextResponse(t) = {"buff", "buf_idx", "last_fin_idx", "parsed_len", "p_state", "resp", "length",
                                "use_content_length", "use_chunked", "curr_chunked_size"}
  BY DEF StateM
<1> QED BY <1>1, <1>2 DEF NextResponse, Is, NoBody

LEMMA OneLess ==
  ASSUME NEW n \in Nat, NEW u \in Nat, 0 < n, n < u
  PROVE  ((n + u) - 1) % u = n - 1
<1>1. n - 1 \in 0 .. u - 1 /\ (n + u) - 1 = u * 1 + (n - 1)
  OBVIOUS
<1> QED BY <1>1

LEMMA FinishLeads ==
  ASSUME AllReadable, Onward, ParserInv', UNCHANGED <<given, rx>>, fin_resp < Len(stream), NEW k \in 1..Avail,
         NEW t, Finish(t), Ahead(t, k), Ends(t, Current), Here + k = Len(Current.octets)
  PROVE  StreamInv' /\ Consumed' = LengthOf(fin_resp')
<1> DEFINE u == state_m'
           f == fin_resp + 1
           v == Current.verdict
<1>1. /\ stream \in Streams /\ fin_resp \in Nat /\ size \in Nat /\ Len(rx) \in Nat /\ m.buf_idx \in Nat
      /\ Len(m.buff) \in Nat /\ Avail = Len(m.buff) - m.buf_idx /\ Sees(stream, size, rx, m)
      /\ Counts(stream, driver, num_reqs, fin_resp) /\ num_reqs = Len(stream) - fin_resp
      /\ Len(stream) \in Nat /\ Len(stream) < U32_MOD /\ U32_MOD \in Nat
  BY OnwardFacts
<1>2. /\ Placing(stream, fin_resp, Current.octets, Start) /\ Here \in Nat /\ Passed(size, rx, m) = Start + Here
      /\ fin_resp \in 0 .. Len(stream) - 1 /\ f \in 1..Len(stream)
  BY CurrentFacts
<1>3. /\ stream' = stream /\ size' = size /\ driver' = driver /\ rx' = rx /\ fin_resp' = f /\ rcode = "NONE"
      /\ NON_BLOCK' = NON_BLOCK
  BY DEF given, Finish, Onward, NON_BLOCK
<1>4. u = IF rcode' = "NONE" THEN NextResponse(t) ELSE t
  BY DEF Finish
<1>5. t.buff = m.buff /\ t.buf_idx = m.buf_idx + k
  BY DEF Ahead
<1>6. u \in StateM
  BY DEF ParserInv, Good, Plain, Over
<1>7. u.buff = m.buff /\ u.buf_idx = m.buf_idx + k
  <2>1. CASE rcode' = "NONE"
    <3>1. u = NextResponse(t)
      BY <1>4, <2>1
    <3>2. NextResponse(t).buff = t.buff /\ NextResponse(t).buf_idx = t.buf_idx
      BY <1>6, <3>1, NextFields
    <3> QED BY <1>5, <3>1, <3>2
  <2>2. CASE rcode' # "NONE"
    BY <1>4, <1>5, <2>2
  <2> QED BY <2>1, <2>2
<1> HIDE DEF u
<1>8. Sees(stream, size, rx, u) /\ Passed(size, rx, u) = Passed(size, rx, m) + k
  <2>1. Forward(m, u, k)
    BY <1>1, <1>7 DEF Forward
  <2>2. Sees(stream, size, rx, m)
    BY <1>1
  <2>3. size \in Nat
    BY <1>1
  <2>4. Len(rx) \in Nat
    BY <1>1
  <2>5. Sees(stream, size, rx, u)
    BY <2>1, <2>2, <2>3, <2>4, SeesOn
  <2>6. PassedOn(size, rx, m, u, k)
    BY <2>1, <2>2, <2>3, <2>4, SeesOn
  <2> QED BY <2>5, <2>6 DEF PassedOn
<1>9. Passed(size, rx, u) = Len(Upto(stream, f))
  <2> DEFINE p == Passed(size, rx, m)
             n == Len(Current.octets)
             e == Len(Upto(stream, f))
             a == Start
             c == Here
  <2>1. e = a + n /\ a \in Nat /\ n \in Nat /\ c \in Nat /\ p = a + c /\ c + k = n /\ Passed(size, rx, u) = p + k /\ k \in Nat
    BY <1>1, <1>2, <1>8 DEF Placing
  <2> HIDE DEF p, n, e, a, c
  <2>2. p + k = e
    BY <2>1
  <2> QED BY <2>1, <2>2 DEF e
<1>10. Consumed' = LengthOf(fin_resp')
  <2>1. Consumed' = (size - Len(rx)) - (Len(u.buff) - u.buf_idx)
    BY <1>3 DEF Consumed, Avail, m, u
  <2> QED BY <1>3, <1>9, <2>1 DEF Passed, LengthOf, Upto
<1>11. num_reqs' = Len(stream) - f
  <2> DEFINE n == num_reqs
             l == Len(stream)
  <2>1. num_reqs' = (n + U32_MOD - 1) % U32_MOD
    BY DEF Finish
  <2>2. n \in Nat /\ l \in Nat /\ fin_resp \in Nat /\ n = l - fin_resp /\ fin_resp < l /\ l < U32_MOD /\ U32_MOD \in Nat
    BY <1>1
  <2> HIDE DEF n, l
  <2>3. n \in Nat /\ 0 < n /\ n < U32_MOD /\ n - 1 = l - f /\ n + U32_MOD - 1 = (n + U32_MOD) - 1
    BY <2>2
  <2>4. ((n + U32_MOD) - 1) % U32_MOD = n - 1
    BY <2>2, <2>3, OneLess
  <2> QED BY <2>1, <2>3, <2>4 DEF l
<1>12. v = IF t.resp.is_close THEN "CLOSE" ELSE "FIN"
  BY DEF Ends
<1>13. rcode' = IF NON_BLOCK /\ t.resp.is_close THEN "CLOSE" ELSE IF NON_BLOCK /\ num_reqs' = 0 THEN "FIN" ELSE "NONE"
  BY <1>3 DEF Finish
<1>14. \A j \in 1..fin_resp : stream[j].verdict = "FIN" \/ (driver # "non_blocking" /\ stream[j].verdict = "CLOSE")
  BY <1>1 DEF Counts
<1>15. stream[f].verdict = v
  BY DEF Current
<1> HIDE DEF v
<1>16. CASE NON_BLOCK /\ t.resp.is_close
  <2>1. rcode' = "CLOSE" /\ v = "CLOSE"
    BY <1>12, <1>13, <1>16
  <2>2. Meant'[f] = CASE ~NON_BLOCK /\ v = "CLOSE"      -> "FIN"
                      [] NON_BLOCK /\ v = "NOT_SUPPORT" -> "ERROR"
                      [] OTHER -> v
    BY <1>2, <1>3, <1>15 DEF Meant
  <2>3. Meant'[f] = "CLOSE" /\ f > 0
    BY <1>1, <1>16, <2>1, <2>2
  <2>4. Verdict'
    BY <1>3, <2>1, <2>3 DEF Verdict
  <2> QED BY <1>10, <2>1, <2>4 DEF StreamInv
<1>17. CASE ~(NON_BLOCK /\ t.resp.is_close)
  <2>1. \A j \in 1..f : stream[j].verdict = "FIN" \/ (driver # "non_blocking" /\ stream[j].verdict = "CLOSE")
    <3>1. v = "FIN" \/ (driver # "non_blocking" /\ v = "CLOSE")
      BY <1>12, <1>17 DEF NON_BLOCK
    <3>2. \A j \in 1..f : j = f \/ j \in 1..fin_resp
      BY <1>1
    <3> QED BY <1>14, <1>15, <3>1, <3>2
  <2>2. CASE NON_BLOCK /\ num_reqs' = 0
    <3>1. rcode' = "FIN" /\ f = Len(stream)
      BY <1>1, <1>11, <1>13, <1>17, <2>2
    <3>2. \A j \in 1..f : stream[j].verdict = "FIN"
      BY <2>1, <2>2 DEF NON_BLOCK
    <3>3. ASSUME NEW j \in 1..f PROVE Meant'[j] = "FIN"
      <4>1. Meant'[j] = CASE ~NON_BLOCK /\ stream[j].verdict = "CLOSE"      -> "FIN"
                          [] NON_BLOCK /\ stream[j].verdict = "NOT_SUPPORT" -> "ERROR"
                          [] OTHER -> stream[j].verdict
        BY <1>3, <3>1 DEF Meant
      <4> QED BY <3>2, <4>1
    <3>4. Verdict'
      BY <1>3, <3>1, <3>3 DEF Verdict
    <3> QED BY <1>10, <3>1, <3>4 DEF StreamInv
  <2>3. CASE ~(NON_BLOCK /\ num_reqs' = 0)
    <3>1. rcode' = "NONE"
      BY <1>13, <1>17, <2>3
    <3>2. u = NextResponse(t)
      BY <1>4, <3>1
    <3>3. u.last_fin_idx = u.buf_idx /\ u.resp = NoHeader /\ Is(u, "VER", 0) /\ NoBody(u)
      BY <1>6, <3>2, NextFields
    <3>4. u.last_fin_idx \in Nat
      BY <1>6 DEF StateM
    <3>5. ASSUME f < Len(stream) PROVE Amid(u, stream[f + 1], 0)
      <4>1. f \in 0 .. Len(stream) - 1
        BY <1>1, <3>5
      <4> HIDE DEF f
      <4> QED BY <1>1, <3>3, <3>4, <4>1, NewAmid
    <3>6. Counts(stream, driver, num_reqs', f)
      <4>1. f <= Len(stream)
        BY <1>1, <1>2
      <4> HIDE DEF f
      <4> QED BY <1>11, <2>1, <4>1 DEF Counts
    <3> DEFINE p == Passed(size, rx, u)
               a == Len(Upto(stream, f))
    <3>7. p = a /\ a \in Nat
      BY <1>1, <1>2, <1>9, UptoType
    <3> HIDE DEF p, a
    <3>8. a <= p /\ p - a = 0
      BY <3>7
    <3>9. Going(stream, size, driver, rx, u, num_reqs', f)
      BY <1>8, <3>5, <3>6, <3>8 DEF Going, p, a
    <3>10. StreamInv'
      BY <1>3, <3>1, <3>9 DEF StreamInv, u
    <3> QED BY <1>10, <3>10
  <2> QED BY <2>2, <2>3
<1> QED BY <1>16, <1>17

\* Every round of the parser.
LEMMA RoundInv ==
  ASSUME AllReadable, Onward, ParserInv', http_resp_parser
  PROVE  StreamInv' /\ (fin_resp' = fin_resp + 1 => Consumed' = LengthOf(fin_resp'))
<1>1. fin_resp < Len(stream)
  BY RoundLeads
<1>2. PICK h \in 1 .. Len(Current.octets) :
        ResponseAt(Current, h) /\ \E k \in 1..Avail : Result(Current, h, Here, k)
  BY RoundLeads
<1>3. PICK k \in 1..Avail : Result(Current, h, Here, k)
  BY <1>2
<1>4. UNCHANGED <<given, rx>>
  BY DEF http_resp_parser
<1>5. CASE \E t : GoOn(t) /\ Ahead(t, k) /\ Tracks(t, Current, h, Here + k) /\ Here + k < Len(Current.octets)
  BY <1>1, <1>2, <1>4, <1>5, GoOnLeads
<1>6. CASE \E t : Finish(t) /\ Ahead(t, k) /\ Ends(t, Current) /\ Here + k = Len(Current.octets)
  BY <1>1, <1>4, <1>6, FinishLeads
<1>7. CASE \E t : Return(t, Current.verdict) /\ t.buff = m.buff /\ Current.verdict \notin {"FIN", "CLOSE"}
  BY <1>1, <1>4, <1>7, ReturnLeads
<1> QED BY <1>3, <1>5, <1>6, <1>7 DEF Result

-----------------------------------------------------------------------------
(* What compaction and recv() leave of it. *)

\* t and u differ in the buffer and the places in it.
Alike(t, u) ==
  /\ u.p_state = t.p_state /\ u.length = t.length
  /\ u.use_content_length = t.use_content_length /\ u.use_chunked = t.use_chunked
  /\ u.curr_chunked_size = t.curr_chunked_size
  /\ u.resp.msg_hdr_len = t.resp.msg_hdr_len /\ u.resp.is_close = t.resp.is_close
  /\ u.resp.status_code = t.resp.status_code /\ u.resp.curr_bit = t.resp.curr_bit
  /\ u.resp.dirty = t.resp.dirty /\ u.resp.use_chunked = t.resp.use_chunked

TablesKept(t, u, o, h) == \A a, b \in Nat : b <= a /\ Table(t, o, h, a, b) => Table(u, o, h, a, b)

LEMMA HeadAlike ==
  ASSUME NEW t, NEW u, Alike(t, u), u.parsed_len = t.parsed_len, NEW o \in Seq(Octets), NEW h, HeadAt(o, h), NEW c \in Nat,
         Behind(u, o, c), TablesKept(t, u, o, h), InHead(t, o, h, c)
  PROVE  InHead(u, o, h, c)
<1>1. h \in Nat /\ h >= 2 /\ h - 2 \in Nat /\ \A d \in Fields(o, h) : d \in Nat
  BY HeadFacts
<1>2. \A p, n : Is(t, p, n) => Is(u, p, n)
  BY DEF Is, Alike
<1>3. ASSUME InStatus(t, o, h, c) PROVE InStatus(u, o, h, c)
  <2>1. Table(u, o, h, 0, 0)
    BY <1>3 DEF TablesKept, InStatus
  <2> QED BY <1>2, <1>3, <2>1 DEF InStatus
<1>4. ASSUME AtLineEnd(t, o, h, c) PROVE AtLineEnd(u, o, h, c)
  <2>1. Table(t, o, h, c + 1, c + 1) /\ c + 1 \in Nat /\ c + 1 <= c + 1
    BY <1>4 DEF AtLineEnd
  <2>2. Table(u, o, h, c + 1, c + 1)
    BY <2>1 DEF TablesKept
  <2> QED BY <1>4, <2>2 DEF AtLineEnd, Alike
<1>5. ASSUME AtLineStart(t, o, h, c) PROVE AtLineStart(u, o, h, c)
  <2>1. Table(u, o, h, c, c)
    BY <1>5 DEF TablesKept, AtLineStart
  <2> QED BY <1>2, <1>5, <2>1 DEF AtLineStart
<1>6. ASSUME BehindName(t, o, h, c) PROVE BehindName(u, o, h, c)
  <2>1. Table(t, o, h, c - 1, c - 1) /\ c - 1 \in Nat /\ c - 1 <= c - 1
    BY <1>1, <1>6 DEF BehindName
  <2>2. Table(u, o, h, c - 1, c - 1)
    BY <2>1 DEF TablesKept
  <2> QED BY <1>2, <1>6, <2>2 DEF BehindName
<1>7. ASSUME InFieldValue(t, o, h, c) PROVE InFieldValue(u, o, h, c)
  <2>1. PICK d \in Fields(o, h), e \in LineEnds(o, h) :
          /\ FieldAt(o, d, e) /\ c \in d + 2 .. e - 2 /\ Is(t, "FIELD_VALUE", c - d - 2)
          /\ t.resp.curr_bit = IF o[d + 1] \in Names THEN o[d + 1] ELSE "none"
          /\ Table(t, o, h, d + 1, d)
    BY <1>7 DEF InFieldValue
  <2>2. d \in Nat /\ d + 1 \in Nat /\ d <= d + 1
    BY <1>1
  <2>3. Table(u, o, h, d + 1, d)
    BY <2>1, <2>2 DEF TablesKept
  <2>4. u.resp.curr_bit = t.resp.curr_bit
    BY DEF Alike
  <2> QED BY <1>2, <2>1, <2>3, <2>4 DEF InFieldValue
<1>8. ASSUME AtHeadEnd(t, o, h, c) PROVE AtHeadEnd(u, o, h, c)
  <2>1. Table(t, o, h, h - 2, h - 2) /\ h - 2 <= h - 2
    BY <1>1, <1>8 DEF AtHeadEnd
  <2>2. Table(u, o, h, h - 2, h - 2)
    BY <1>1, <2>1 DEF TablesKept
  <2> QED BY <1>2, <1>8, <2>2 DEF AtHeadEnd
<1>9. ASSUME InFields(t, o, h, c) PROVE InFields(u, o, h, c)
  BY <1>4, <1>5, <1>6, <1>7, <1>8, <1>9 DEF InFields
<1>10. NoBody(t) => NoBody(u)
  BY DEF NoBody, Alike
<1>11. /\ c < h /\ t.resp.msg_hdr_len = c /\ ~t.resp.is_close /\ NoBody(t)
       /\ c >= 4 => t.resp.status_code = o[3] /\ o[3] \in Codes
       /\ InStatus(t, o, h, c) \/ (c >= 4 /\ InFields(t, o, h, c))
  BY DEF InHead
<1>12. /\ u.resp.msg_hdr_len = t.resp.msg_hdr_len /\ u.resp.is_close = t.resp.is_close
       /\ u.resp.status_code = t.resp.status_code
  BY DEF Alike
<1> QED BY <1>3, <1>9, <1>10, <1>11, <1>12 DEF InHead

\* Octets behind those looked at.
LEMMA RefilledTracks ==
  ASSUME NEW t \in StateM, t.buf_idx = Len(t.buff), NEW d \in Seq(Octets), NEW r \in Responses, NEW h, HeadAt(r.octets, h),
         NEW c \in Nat, Tracks(t, r, h, c)
  PROVE  Tracks(Refilled(t, d), r, h, c)
<1> DEFINE u == Refilled(t, d)
           o == r.octets
<1>1. /\ u.buff = t.buff \o d /\ u.buf_idx = t.buf_idx /\ u.last_fin_idx = t.last_fin_idx
      /\ u.resp = t.resp /\ u.p_state = t.p_state /\ u.parsed_len = t.parsed_len /\ u.length = t.length
      /\ u.use_content_length = t.use_content_length /\ u.use_chunked = t.use_chunked
      /\ u.curr_chunked_size = t.curr_chunked_size
  BY DEF Refilled, StateM
<1>2. o \in Seq(Octets) /\ t.buff \in Seq(Octets) /\ Len(t.buff) \in Nat /\ t.last_fin_idx \in Nat
  BY DEF Responses, StateM
<1> HIDE DEF u
<1>3. ASSUME Behind(t, o, c) PROVE Behind(u, o, c)
  <2>1. t.buf_idx = t.last_fin_idx + c /\ \A j \in 1..c : t.buff[t.last_fin_idx + j] = o[j]
    BY <1>3 DEF Behind
  <2>2. ASSUME NEW j \in 1..c PROVE u.buff[t.last_fin_idx + j] = o[j]
    <3>1. t.last_fin_idx + j \in 1..Len(t.buff)
      BY <1>2, <2>1
    <3>2. (t.buff \o d)[t.last_fin_idx + j] = t.buff[t.last_fin_idx + j]
      BY <1>2, <3>1
    <3> QED BY <1>1, <2>1, <3>2
  <2> QED BY <1>1, <2>1, <2>2 DEF Behind
<1>4. Alike(t, u)
  BY <1>1 DEF Alike
<1>5. TablesKept(t, u, o, h)
  BY <1>1, TableKept DEF TablesKept, SameTable
<1>6. CASE InHead(t, o, h, c)
  <2>1. Behind(u, o, c)
    BY <1>3, <1>6 DEF InHead
  <2>2. u.parsed_len = t.parsed_len
    BY <1>1
  <2> HIDE DEF o
  <2>3. InHead(u, o, h, c)
    BY <1>2, <1>4, <1>5, <1>6, <2>1, <2>2, HeadAlike DEF o
  <2> QED BY <2>3 DEF Tracks, u, o
<1>7. CASE SizedRest(t, o, h, c) /\ Ends(t, r)
  BY <1>1, <1>7 DEF Tracks, SizedRest, Ends, u
<1>8. CASE Chunks(t, o, h, c) /\ Ends(t, r)
  <2>1. PICK B \in SUBSET SizeLines(o, h) : ChunksAt(o, B) /\ \E b \in B :
          InSize(t, b, c) \/ InData(t, o, B, b, c) \/ InLast(t, o, b, c)
    BY <1>8 DEF Chunks
  <2>2. PICK b \in B : InSize(t, b, c) \/ InData(t, o, B, b, c) \/ InLast(t, o, b, c)
    BY <2>1
  <2>3. InSize(t, b, c) => InSize(u, b, c)
    BY <1>1 DEF InSize, Idle
  <2>4. InData(t, o, B, b, c) => InData(u, o, B, b, c)
    BY <1>1 DEF InData, Idle
  <2>5. InLast(t, o, b, c) => InLast(u, o, b, c)
    BY <1>1 DEF InLast, Idle
  <2>6. ChunkedBody(o, h) /\ Behind(u, o, c) /\ u.resp.use_chunked /\ ~u.use_content_length
    BY <1>1, <1>3, <1>8 DEF Chunks
  <2>7. Chunks(u, o, h, c)
    BY <2>1, <2>2, <2>3, <2>4, <2>5, <2>6 DEF Chunks
  <2>8. Ends(u, r)
    BY <1>1, <1>8 DEF Ends
  <2> QED BY <2>7, <2>8 DEF Tracks, u
<1> QED BY <1>6, <1>7, <1>8 DEF Tracks

\* update_res_header_idx
LEMMA TablesShifted ==
  ASSUME NEW t \in StateM, NEW u, u.resp.dirty = t.resp.dirty, u.resp.use_chunked = t.resp.use_chunked,
         u.resp.idx = ShiftedIdx(t), u.last_fin_idx = 0, NEW o \in Seq(Octets), NEW h, HeadAt(o, h)
  PROVE  TablesKept(t, u, o, h)
<1> SUFFICES ASSUME NEW a \in Nat, NEW b \in Nat, b <= a, Table(t, o, h, a, b)
             PROVE  Table(u, o, h, a, b)
  BY DEF TablesKept
<1>1. \A x \in Fields(o, h) : x \in Nat
  BY HeadFacts
<1>2. t.resp.dirty \subseteq Names /\ t.resp.idx \in [Names -> Int] /\ t.last_fin_idx \in Nat
  BY DEF StateM
<1>3. ASSUME NEW n \in Known(o, h, b)
      PROVE  \E x \in FieldsOf(o, h, n) : x < b /\ u.resp.idx[n] = u.last_fin_idx + x + 2
  <2>1. PICK x \in FieldsOf(o, h, n) : x < b /\ t.resp.idx[n] = t.last_fin_idx + x + 2
    BY DEF Table
  <2>2. x \in Nat /\ x < a
    BY <1>1, <2>1 DEF FieldsOf
  <2>3. n \in Names
    BY DEF Known
  <2>4. n \in t.resp.dirty
    BY <2>2, <2>3 DEF Known, Table
  <2>5. u.resp.idx[n] = t.resp.idx[n] - t.last_fin_idx
    BY <2>3, <2>4 DEF ShiftedIdx
  <2>6. u.resp.idx[n] = 0 + x + 2
    BY <1>2, <2>1, <2>2, <2>3, <2>5
  <2> QED BY <2>1, <2>6
<1>4. u.resp.dirty = Known(o, h, a)
  BY DEF Table
<1>5. (\E d \in FieldsOf(o, h, "Transfer-Encoding"), y \in Fields(o, h) :
         o[d + 4] = "chunked" /\ d < y /\ y < b /\ o[y + 1] \in Names) => u.resp.use_chunked
  BY DEF Table
<1> QED BY <1>3, <1>4, <1>5 DEF Table

\* What is left of s.
Shifted(s, t, k) ==
  /\ Alike(s, t) /\ t.buf_idx = k /\ t.last_fin_idx = 0 /\ t.resp.idx = ShiftedIdx(s) /\ Len(t.buff) = k
  /\ NoBody(s) => t.parsed_len = s.parsed_len
  /\ \A j \in 1..k : t.buff[j] = s.buff[s.last_fin_idx + j]

LEMMA CompactedShifted ==
  ASSUME NEW s, Plain(s, NON_BLOCK), s.buf_idx = Len(s.buff), ~(Len(s.buff) <= MAX_BUFF - CHUNK_SIZE)
  PROVE  Shifted(s, Compacted(s), KeptLen(s))
<1> DEFINE k == KeptLen(s)
           l == s.last_fin_idx
           v == SubSeq(s.buff, l + 1, l + k)
           p == IF s.use_content_length \/ (NON_BLOCK /\ s.use_chunked) THEN 0 ELSE s.parsed_len
           i == ShiftedIdx(s)
           h == [s.resp EXCEPT !.idx = i]
           t == [s EXCEPT !.buff = v, !.buf_idx = k, !.last_fin_idx = 0, !.parsed_len = p, !.resp = h]
<1>1. s \in StateM /\ Ordered(s)
  BY DEF Plain
<1>2. Compacted(s) = t
  BY <1>1 DEF Compacted, StateM
<1>3. s.buff \in Seq(Octets) /\ Len(s.buff) \in Nat /\ l \in Nat /\ l <= Len(s.buff) /\ s.resp \in Header
  BY <1>1 DEF StateM, Header, Ordered
<1>4. k \in Nat /\ k <= Len(s.buff) - l
  BY KeptLenFacts
<1>5. NoBody(s) => p = s.parsed_len
  BY <1>1 DEF NoBody, StateM
<1> HIDE DEF k, p, i
<1>6. Len(v) = k /\ \A j \in 1..k : v[j] = s.buff[l + j]
  <2> DEFINE b == s.buff
             L == Len(s.buff)
  <2>1. b \in Seq(Octets) /\ l \in Nat /\ L \in Nat /\ L = Len(b) /\ k \in Nat /\ <<>> \in Seq(Octets)
    BY <1>3, <1>4
  <2>2. v = KeptOf(b, l, k) /\ l + k <= L
    BY <1>3, <1>4 DEF KeptOf
  <2> HIDE DEF b, L, l, v
  <2>3. KeepsOctets(b, <<>>, l, k, L)
    BY <2>1, <2>2, KeptOctets
  <2> QED BY <2>2, <2>3 DEF KeepsOctets, b
<1> HIDE DEF v
<1>7. /\ h.msg_hdr_len = s.resp.msg_hdr_len /\ h.dirty = s.resp.dirty /\ h.curr_bit = s.resp.curr_bit /\ h.idx = i
      /\ h.is_close = s.resp.is_close /\ h.status_code = s.resp.status_code /\ h.use_chunked = s.resp.use_chunked
  BY <1>3 DEF Header
<1> HIDE DEF h
<1>8. /\ t.buff = v /\ t.buf_idx = k /\ t.last_fin_idx = 0 /\ t.parsed_len = p
      /\ t.resp = h /\ t.p_state = s.p_state /\ t.length = s.length
      /\ t.use_content_length = s.use_content_length /\ t.use_chunked = s.use_chunked
      /\ t.curr_chunked_size = s.curr_chunked_size
  BY <1>1 DEF StateM
<1> HIDE DEF t
<1>9. Alike(s, t)
  BY <1>7, <1>8 DEF Alike
<1>10. Shifted(s, t, k)
  BY <1>5, <1>6, <1>7, <1>8, <1>9 DEF Shifted, i
<1> QED BY <1>2, <1>10 DEF k

LEMMA BuffSize == MAX_BUFF \in Nat /\ CHUNK_SIZE \in Nat /\ MAX_BUFF - CHUNK_SIZE \in Int
BY ParserAssumption DEF MAX_BUFF

LEMMA HeadStateOf ==
  ASSUME NEW t, NEW o, NEW h, NEW c, InHead(t, o, h, c)
  PROVE  t.p_state \in HeadStates
<1>1. t.p_state \in {"VER", "CODE_OR_TOKEN", "REASON_OR_RESOURCE", "HEADER", "FIELD_NAME", "FIELD_VALUE"}
  BY DEF InHead, InStatus, InFields, AtLineEnd, AtLineStart, BehindName, InFieldValue, AtHeadEnd, Is
<1> QED BY <1>1 DEF HeadStates, StatusLine, HeaderField

LEMMA NothingAhead ==
  ASSUME Onward, Avail = 0
  PROVE  m.buf_idx = Len(m.buff) /\ Passed(size, rx, m) = size - Len(rx)
<1> DEFINE b == m.buf_idx
           l == Len(m.buff)
           n == Len(rx)
           p == Passed(size, rx, m)
<1>1. b \in Nat /\ l \in Nat /\ Avail = l - b /\ n \in Nat /\ size \in Nat /\ p = size - n - Avail
  BY OnwardFacts
<1> HIDE DEF b, l, n, p
<1>2. b = l /\ p = size - n
  BY <1>1
<1> QED BY <1>2 DEF b, l, n, p

\* Where a response is in chunks, the buffer is not full before its end.
LEMMA ChunksUnmoved ==
  ASSUME AllReadable, Onward, Avail = 0, fin_resp < Len(stream), NEW h \in 1 .. Len(Current.octets),
         ResponseAt(Current, h), Chunks(m, Current.octets, h, Here)
  PROVE  Len(m.buff) <= MAX_BUFF - CHUNK_SIZE
<1> DEFINE n == Len(m.buff)
           o == Len(Current.octets)
           e == Len(Upto(stream, fin_resp + 1))
<1>1. Len(OctetsOf(SubSeq(stream, 1, fin_resp + 1))) <= MAX_BUFF - CHUNK_SIZE
  <2>1. stream \in Streams /\ fin_resp + 1 \in 1..Len(stream)
    BY OnwardFacts, CurrentFacts
  <2>2. ChunkedBody(Current.octets, h)
    BY DEF Chunks
  <2>3. Unmoved(stream)
    BY <2>1 DEF AllReadable
  <2> QED BY <2>1, <2>2, <2>3 DEF Unmoved, Current
<1>2. e <= MAX_BUFF - CHUNK_SIZE
  BY <1>1 DEF Upto
<1>3. n <= size - Len(rx) /\ n \in Nat /\ size \in Nat /\ Len(rx) \in Nat
  BY OnwardFacts DEF Sees
<1>4. size - Len(rx) = Start + Here
  BY NothingAhead, CurrentFacts
<1>5. Here < o /\ Here \in Nat /\ o \in Nat /\ Start \in Nat /\ e = Start + o
  BY CurrentFacts DEF Placing
<1> HIDE DEF n, o, e
<1>6. n <= e
  BY <1>3, <1>4, <1>5
<1>7. e \in Nat
  BY <1>5
<1> QED BY <1>2, <1>3, <1>6, <1>7, BuffSize DEF n

\* Wherever the parser is, compaction leaves it there.
LEMMA CompactedTracks ==
  ASSUME AllReadable, Onward, Avail = 0, fin_resp < Len(stream), NEW h \in 1 .. Len(Current.octets),
         ResponseAt(Current, h), Tracks(m, Current, h, Here)
  PROVE  Tracks(Compacted(m), Current, h, Here) /\ Len(Compacted(m).buff) <= Len(m.buff)
<1> DEFINE r == Current
           o == r.octets
           c == Here
           t == Compacted(m)
           k == KeptLen(m)
<1>1. CASE Len(m.buff) <= MAX_BUFF - CHUNK_SIZE
  <2>1. t = m
    BY <1>1 DEF Compacted
  <2>2. Len(m.buff) <= Len(m.buff)
    BY OnwardFacts
  <2> HIDE DEF t
  <2> QED BY <2>1, <2>2 DEF t
<1>2. CASE ~(Len(m.buff) <= MAX_BUFF - CHUNK_SIZE)
  <2>1. m.buf_idx = Len(m.buff) /\ Plain(m, NON_BLOCK) /\ m \in StateM /\ Len(m.buff) \in Nat
    BY NothingAhead, OnwardFacts
  <2>2. Shifted(m, t, k)
    BY <1>2, <2>1, CompactedShifted
  <2>3. k \in Nat /\ k <= Len(m.buff) - m.last_fin_idx /\ (m.p_state \in HeadStates => k = Len(m.buff) - m.last_fin_idx)
    BY <2>1, KeptLenFacts
  <2>4. m.last_fin_idx \in Nat
    BY <2>1 DEF StateM
  <2> HIDE DEF t, k
  <2>5. Alike(m, t) /\ Len(t.buff) = k
    BY <2>2 DEF Shifted
  <2>6. Len(t.buff) <= Len(m.buff)
    BY <2>1, <2>3, <2>4, <2>5
  <2>7. o \in Seq(Octets) /\ HeadAt(o, h) /\ c \in Nat
    BY CurrentFacts DEF Responses, ResponseAt
  <2>8. CASE InHead(m, o, h, c)
    <3>1. m.p_state \in HeadStates
      BY <2>8, HeadStateOf
    <3>2. Behind(m, o, c) /\ NoBody(m)
      BY <2>8 DEF InHead
    <3>3. m.buf_idx = m.last_fin_idx + c /\ \A j \in 1..c : m.buff[m.last_fin_idx + j] = o[j]
      BY <3>2 DEF Behind
    <3>4. k = c
      BY <2>1, <2>3, <2>4, <2>7, <3>1, <3>3
    <3>5. \A j \in 1..c : t.buff[0 + j] = o[j]
      <4>1. \A j \in 1..c : t.buff[j] = o[j]
        BY <2>2, <3>3, <3>4 DEF Shifted
      <4>2. \A j \in 1..c : 0 + j = j
        BY <2>7
      <4> QED BY <4>1, <4>2
    <3>6. Behind(t, o, c)
      <4>1. t.buf_idx = c /\ t.last_fin_idx = 0 /\ c = 0 + c
        BY <2>2, <2>7, <3>4 DEF Shifted
      <4> QED BY <3>5, <4>1 DEF Behind
    <3>7. t.parsed_len = m.parsed_len
      BY <2>2, <3>2 DEF Shifted
    <3> HIDE DEF o, c, r
    <3>8. TablesKept(m, t, o, h)
      <4>1. t.resp.dirty = m.resp.dirty /\ t.resp.use_chunked = m.resp.use_chunked
        BY <2>5 DEF Alike
      <4>2. t.resp.idx = ShiftedIdx(m) /\ t.last_fin_idx = 0
        BY <2>2 DEF Shifted
      <4> QED BY <2>1, <2>7, <4>1, <4>2, TablesShifted
    <3>9. InHead(t, o, h, c)
      BY <2>5, <2>7, <2>8, <3>6, <3>7, <3>8, HeadAlike
    <3>10. Tracks(t, r, h, c)
      BY <3>9 DEF Tracks, o
    <3> QED BY <2>6, <3>10 DEF t, r, c
  <2>9. CASE SizedRest(m, o, h, c) /\ Ends(m, r)
    <3>1. SizedRest(t, o, h, c) /\ Ends(t, r)
      BY <2>5, <2>9 DEF SizedRest, Ends, Alike
    <3>2. Tracks(t, r, h, c)
      BY <3>1 DEF Tracks
    <3> QED BY <2>6, <3>2 DEF t
  <2>10. CASE Chunks(m, o, h, c)
    BY <1>2, <2>10, ChunksUnmoved
  <2> QED BY <2>8, <2>9, <2>10 DEF Tracks
<1> QED BY <1>1, <1>2

\* n octets more are in the buffer.
Received(x, n, y) == /\ Len(y) = Len(x) - n
                     /\ \A i \in 1 .. Len(x) - n : y[i] = x[n + i]

Filled(t, v, u, x, n) ==
  /\ t.buf_idx = Len(t.buff) /\ Len(t.buff) \in Nat
  /\ Len(v.buff) \in Nat /\ Len(v.buff) <= Len(t.buff) /\ v.buf_idx = Len(v.buff)
  /\ u.buf_idx = v.buf_idx /\ Len(u.buff) = Len(v.buff) + n /\ \A i \in 1..n : u.buff[Len(v.buff) + i] = x[i]
StaysAt(z, x, y, u) == Passed(z, y, u) = z - Len(x)

LEMMA SeesReceived ==
  ASSUME NEW s, NEW z \in Nat, NEW x, NEW n, NEW y, NEW t, NEW u, NEW v,
         Len(x) \in Nat, n \in 1..Len(x), Received(x, n, y), Sees(s, z, x, t), Filled(t, v, u, x, n)
  PROVE  Sees(s, z, y, u) /\ StaysAt(z, x, y, u)
<1> DEFINE p == z - Len(x)
           q == Passed(z, y, u)
           b == Len(v.buff)
           l == Len(x)
           w == OctetsOf(s)
           W == Len(w)
           a == Len(t.buff)
           k == Len(y)
           e == Len(u.buff)
           f == u.buf_idx
<1>1. /\ z <= W /\ l <= z /\ (\A i \in 1..l : x[i] = w[p + i]) /\ a <= p
  BY DEF Sees
<1>2. q = (z - k) - (e - f) /\ k = l - n /\ e = b + n /\ f = b /\ b \in Nat /\ l \in Nat /\ n \in 1..l /\ a \in Nat
      /\ b <= a /\ p = z - l
  BY DEF Passed, Received, Filled
<1>3. (\A i \in 1 .. l - n : y[i] = x[n + i]) /\ \A i \in 1..n : u.buff[b + i] = x[i]
  BY DEF Received, Filled
<1> HIDE DEF p, q, b, l, w, W, a, k, e, f
<1>a. l <= z /\ a <= p
  BY <1>1
<1>4. p \in Nat /\ q = p /\ k \in Nat /\ n \in Nat /\ k <= z /\ z - k = p + n /\ e <= z - k /\ e - f = n
  <2>1. p \in Nat /\ q = p /\ k \in Nat /\ n \in Nat /\ k <= z
    BY <1>a, <1>2
  <2>2. z - k = p + n /\ e - f = n
    BY <1>a, <1>2
  <2>3. e <= z - k
    BY <1>a, <1>2, <2>1, <2>2
  <2> QED BY <2>1, <2>2, <2>3
<1>5. ASSUME NEW i \in 1..k PROVE y[i] = w[(z - k) + i]
  <2>1. i \in 1 .. l - n /\ n + i \in 1..l /\ (z - k) + i = p + (n + i)
    BY <1>2, <1>4
  <2>2. y[i] = x[n + i] /\ x[n + i] = w[p + (n + i)]
    BY <1>1, <1>3, <2>1
  <2> QED BY <2>1, <2>2
<1>6. ASSUME NEW i \in 1 .. e - f PROVE u.buff[f + i] = w[q + i]
  <2>1. i \in 1..n /\ i \in 1..l
    BY <1>2, <1>4
  <2> QED BY <1>1, <1>2, <1>3, <1>4, <2>1
<1>7. Sees(s, z, y, u)
  BY <1>1, <1>4, <1>5, <1>6 DEF Sees, p, q, w, W, k, e, f
<1> QED BY <1>4, <1>7 DEF StaysAt, p, q, l

LEMMA RecvStream ==
  ASSUME AllReadable, Onward, Recv
  PROVE  StreamInv' /\ fin_resp' = fin_resp
<1> DEFINE t == Compacted(m)
<1>1. PICK n \in 1..CHUNK_SIZE : /\ n <= Len(rx)
                                 /\ state_m' = [t EXCEPT !.buff = @ \o SubSeq(rx, 1, n)]
                                 /\ rx' = SubSeq(rx, n + 1, Len(rx))
  BY DEF Recv
<1> DEFINE d == SubSeq(rx, 1, n)
           u == Refilled(t, d)
           y == SubSeq(rx, n + 1, Len(rx))
<1>2. /\ rcode = "NONE" /\ rcode' = "NONE" /\ Avail = 0 /\ num_reqs # 0 /\ stream' = stream /\ size' = size
      /\ driver' = driver /\ num_reqs' = num_reqs /\ fin_resp' = fin_resp /\ state_m' = u /\ rx' = y
  BY <1>1 DEF Recv, NeedData, given, calls, Refilled
<1>3. /\ m \in StateM /\ Plain(m, NON_BLOCK) /\ rx \in Seq(Octets) /\ Len(rx) \in Nat /\ size \in Nat
      /\ Sees(stream, size, rx, m) /\ Counts(stream, driver, num_reqs, fin_resp) /\ Len(m.buff) \in Nat
      /\ fin_resp < Len(stream)
  BY <1>2, OnwardFacts
<1>4. m.buf_idx = Len(m.buff) /\ Passed(size, rx, m) = size - Len(rx)
  BY <1>2, NothingAhead
<1>5. PICK h \in 1 .. Len(Current.octets) :
        ResponseAt(Current, h) /\ Here < Len(Current.octets) /\ Tracks(m, Current, h, Here)
  BY <1>3, OnwardFacts DEF Amid
<1>6. Tracks(t, Current, h, Here) /\ Len(t.buff) <= Len(m.buff)
  BY <1>2, <1>3, <1>5, CompactedTracks
<1>7. t \in StateM /\ t.buf_idx = Len(t.buff) /\ t.buff \in Seq(Octets) /\ Len(t.buff) \in Nat
  <2>1. Plain(t, NON_BLOCK) /\ t.buf_idx = Len(t.buff)
    BY <1>3, <1>4, CompactedGood
  <2> HIDE DEF t
  <2> QED BY <2>1 DEF Plain, StateM
<1>8. n \in 1..Len(rx)
  BY <1>1, <1>3, ParserAssumption
<1> HIDE DEF t
<1>9. d \in Seq(Octets) /\ Len(d) = n /\ \A i \in 1..n : d[i] = rx[i]
  <2>1. 1 \in Int /\ n \in Int /\ \A i \in 1..n : rx[i] \in Octets
    BY <1>3, <1>8
  <2>2. d \in Seq(Octets) /\ Len(d) = (IF 1 <= n THEN n - 1 + 1 ELSE 0) /\ \A i \in 1 .. n - 1 + 1 : d[i] = rx[1 + i - 1]
    BY <2>1, SubSeqProperties
  <2> HIDE DEF d
  <2>3. \A i \in 1..n : i \in 1 .. n - 1 + 1 /\ 1 + i - 1 = i
    BY <1>8
  <2> QED BY <1>8, <2>2, <2>3
<1>10. Received(rx, n, y)
  <2> DEFINE l == Len(rx)
             f == n + 1
  <2>1. l \in Nat /\ n \in 1..l /\ f \in Int /\ l \in Int /\ \A i \in f..l : rx[i] \in Octets
    BY <1>3, <1>8
  <2>2. y = SubSeq(rx, f, l)
    OBVIOUS
  <2> HIDE DEF y, l, f
  <2>3. Len(y) = (IF f <= l THEN l - f + 1 ELSE 0) /\ \A i \in 1 .. l - f + 1 : y[i] = rx[f + i - 1]
    BY <2>1, <2>2, SubSeqProperties
  <2>4. l - f + 1 = l - n /\ (~(f <= l) => l - n = 0)
    BY <2>1 DEF f
  <2>5. \A i \in 1 .. l - n : f + i - 1 = n + i
    BY <2>1 DEF f
  <2> QED BY <2>3, <2>4, <2>5 DEF Received, l
<1> HIDE DEF d
<1>11. u.buff = t.buff \o d /\ u.buf_idx = t.buf_idx
  BY <1>7 DEF Refilled, StateM
<1>12. Len(u.buff) = Len(t.buff) + n /\ \A i \in 1..n : u.buff[Len(t.buff) + i] = rx[i]
  <2> DEFINE b == t.buff
  <2>1. b \in Seq(Octets) /\ Len(b) \in Nat
    BY <1>7
  <2> HIDE DEF b
  <2>2. Len(b \o d) = Len(b) + n /\ \A i \in 1..n : (b \o d)[Len(b) + i] = d[i]
    <3>1. Len(b \o d) = Len(b) + Len(d)
          /\ \A j \in 1..Len(b) + Len(d) : (b \o d)[j] = IF j <= Len(b) THEN b[j] ELSE d[j - Len(b)]
      BY <1>9, <2>1, ConcatProperties
    <3>2. ASSUME NEW i \in 1..n PROVE (b \o d)[Len(b) + i] = d[i]
      <4>1. Len(b) + i \in 1..Len(b) + Len(d) /\ ~(Len(b) + i <= Len(b)) /\ (Len(b) + i) - Len(b) = i
        BY <1>8, <1>9, <2>1
      <4> QED BY <3>1, <4>1
    <3> QED BY <1>9, <3>1, <3>2
  <2> QED BY <1>9, <1>11, <2>2 DEF b
<1> HIDE DEF u, y
<1>13. Sees(stream, size, y, u) /\ Passed(size, y, u) = size - Len(rx)
  <2>1. Filled(m, t, u, rx, n)
    BY <1>3, <1>4, <1>6, <1>7, <1>11, <1>12 DEF Filled
  <2>2. Sees(stream, size, rx, m)
    BY <1>3
  <2>3. size \in Nat
    BY <1>3
  <2>4. Len(rx) \in Nat
    BY <1>3
  <2>5. Sees(stream, size, y, u)
    BY <1>8, <1>10, <2>1, <2>2, <2>3, <2>4, SeesReceived
  <2>6. StaysAt(size, rx, y, u)
    BY <1>8, <1>10, <2>1, <2>2, <2>3, <2>4, SeesReceived
  <2> QED BY <2>5, <2>6 DEF StaysAt
<1>14. Current \in Responses /\ HeadAt(Current.octets, h) /\ Here \in Nat
  BY <1>3, <1>5, CurrentFacts DEF ResponseAt
<1>15. Tracks(u, Current, h, Here)
  BY <1>6, <1>7, <1>9, <1>14, RefilledTracks DEF u
<1>16. Start <= Passed(size, rx, m) /\ Here = Passed(size, rx, m) - Start
  BY OnwardFacts
<1>17. Passed(size, y, u) = Passed(size, rx, m)
  BY <1>4, <1>13
<1>18. Amid(u, Current, Here)
  BY <1>5, <1>15 DEF Amid
<1>19. Going(stream, size, driver, y, u, num_reqs, fin_resp)
  BY <1>3, <1>13, <1>16, <1>17, <1>18 DEF Going, Start, Current
<1>20. StreamInv'
  BY <1>2, <1>19 DEF StreamInv
<1> QED BY <1>2, <1>20

\* A head stays in the buffer, with room behind it.
LEMMA CompactedRoom ==
  ASSUME AllReadable, \A s \in Streams : ShortHeads(s), Onward, Avail = 0, fin_resp < Len(stream), NON_BLOCK
  PROVE  Len(Compacted(m).buff) <= MAX_BUFF - CHUNK_SIZE
<1> DEFINE r == Current
           o == r.octets
           c == Here
           t == Compacted(m)
           k == KeptLen(m)
           K == MAX_BUFF - CHUNK_SIZE
<1>1. CASE Len(m.buff) <= K
  <2>1. t = m
    BY <1>1 DEF Compacted
  <2> HIDE DEF t
  <2> QED BY <1>1, <2>1 DEF t
<1>2. CASE ~(Len(m.buff) <= K)
  <2>1. m.buf_idx = Len(m.buff) /\ Plain(m, NON_BLOCK) /\ m \in StateM /\ m.last_fin_idx \in Nat /\ stream \in Streams
    BY NothingAhead, OnwardFacts DEF StateM
  <2>2. Len(t.buff) = k
    BY <1>2, <2>1, CompactedShifted DEF Shifted
  <2>3. PICK h \in 1 .. Len(o) : ResponseAt(r, h) /\ c < Len(o) /\ Tracks(m, r, h, c)
    BY OnwardFacts DEF Amid
  <2>4. h <= K
    <3>1. fin_resp + 1 \in 1..Len(stream)
      BY CurrentFacts
    <3>2. HeadAt(stream[fin_resp + 1].octets, h) /\ h \in 1 .. Len(stream[fin_resp + 1].octets)
      BY <2>3 DEF ResponseAt, Current
    <3> QED BY <2>1, <3>1, <3>2 DEF ShortHeads
  <2>5. h \in Nat /\ c \in Nat /\ K \in Int
    BY <2>3, CurrentFacts, BuffSize
  <2> HIDE DEF t, k, K
  <2>6. CASE InHead(m, o, h, c)
    <3>1. m.p_state \in HeadStates
      BY <2>6, HeadStateOf
    <3>2. m.buf_idx = m.last_fin_idx + c /\ c < h
      BY <2>6 DEF InHead, Behind
    <3>3. k = Len(m.buff) - m.last_fin_idx
      BY <2>1, <3>1, KeptLenFacts DEF k
    <3> DEFINE l == m.last_fin_idx
               L == Len(m.buff)
    <3>4. m.buf_idx = L /\ l \in Nat
      BY <2>1
    <3>5. L = l + c /\ k = L - l
      BY <3>2, <3>3, <3>4
    <3>6. k = c
      <4> HIDE DEF l, L
      <4> QED BY <2>5, <3>4, <3>5
    <3>7. k <= K
      <4> HIDE DEF l, L
      <4> QED BY <2>4, <2>5, <3>2, <3>6
    <3> QED BY <2>2, <3>7 DEF t, K
  <2>7. CASE SizedRest(m, o, h, c)
    <3>1. m.use_content_length /\ m.resp.msg_hdr_len = h
      BY <2>7 DEF SizedRest
    <3>2. k = m.resp.msg_hdr_len
      BY <3>1, Zenon DEF KeptLen, k
    <3> QED BY <2>2, <2>4, <3>1, <3>2 DEF t, K
  <2>8. CASE Chunks(m, o, h, c)
    BY <1>2, <2>3, <2>8, ChunksUnmoved DEF K
  <2> QED BY <2>3, <2>6, <2>7, <2>8 DEF Tracks
<1> QED BY <1>1, <1>2

LEMMA BuffKept ==
  ASSUME NEW r, NEW h, NEW c, NEW k, Result(r, h, c, k), ParserInv'
  PROVE  state_m'.buff = m.buff
<1> DEFINE u == state_m'
<1>1. DOMAIN u = {"buff", "buf_idx", "last_fin_idx", "parsed_len", "p_state", "resp", "length",
                  "use_content_length", "use_chunked", "curr_chunked_size"} /\ u \in StateM
  BY DEF ParserInv, Good, Plain, Over, StateM
<1>2. CASE \E t : GoOn(t) /\ Ahead(t, k)
  BY <1>2 DEF GoOn, Ahead
<1>3. CASE \E t : Finish(t) /\ Ahead(t, k)
  <2>1. PICK t : Finish(t) /\ Ahead(t, k)
    BY <1>3
  <2>2. u = IF rcode' = "NONE" THEN NextResponse(t) ELSE t
    BY <2>1 DEF Finish
  <2>3. t.buff = m.buff
    BY <2>1 DEF Ahead
  <2> HIDE DEF u
  <2>4. CASE rcode' = "NONE"
    <3>1. u = NextResponse(t)
      BY <2>2, <2>4
    <3>2. NextResponse(t).buff = t.buff
      BY <1>1, <3>1, NextFields
    <3> QED BY <2>3, <3>1, <3>2 DEF u
  <2>5. CASE rcode' # "NONE"
    BY <2>2, <2>3, <2>5 DEF u
  <2> QED BY <2>4, <2>5
<1>4. CASE \E t : Return(t, r.verdict) /\ t.buff = m.buff
  <2>1. PICK t : Return(t, r.verdict) /\ t.buff = m.buff
    BY <1>4
  <2>2. u = t \/ u = [t EXCEPT !.parsed_len = 0] \/ u = [t EXCEPT !.parsed_len = 0, !.buf_idx = t.last_fin_idx]
    BY <2>1 DEF Return
  <2> HIDE DEF u
  <2>3. DOMAIN u = DOMAIN t
    BY <2>2
  <2>4. "buff" \in DOMAIN t
    BY <1>1, <2>3
  <2>5. u.buff = t.buff
    BY <2>2, <2>4
  <2> QED BY <2>1, <2>5 DEF u
<1> QED BY <1>2, <1>3, <1>4 DEF Result

LEMMA RoomStep ==
  ASSUME AllReadable, \A s \in Streams : ShortHeads(s), ParserInv, StreamInv, ParserInv', [Next]_vars, BufferHasRoom
  PROVE  BufferHasRoom'
<1> SUFFICES ASSUME NON_BLOCK' PROVE Len(state_m'.buff) <= MAX_BUFF
  BY DEF BufferHasRoom, m
<1>1. MAX_BUFF \in Nat /\ CHUNK_SIZE \in Nat /\ MAX_BUFF - CHUNK_SIZE \in Int
  BY BuffSize
<1>2. CASE http_resp_parser
  <2>1. Round /\ UNCHANGED <<given, rx>>
    BY <1>2 DEF http_resp_parser, SkipAll, EndBody, EndChunk, OnCR, OnLF, OnSP, OnColon, OnOther, InHeader
  <2>2. Onward /\ NON_BLOCK
    BY <2>1 DEF Onward, StreamInv, Round, NON_BLOCK, given
  <2>3. \E h, k : Result(Current, h, Here, k)
    BY <1>2, <2>2, RoundLeads
  <2>4. state_m'.buff = m.buff
    BY <2>3, BuffKept
  <2> QED BY <2>2, <2>4 DEF BufferHasRoom
<1>3. CASE Recv
  <2>1. PICK n \in 1..CHUNK_SIZE : n <= Len(rx) /\ state_m' = Refilled(Compacted(m), SubSeq(rx, 1, n))
    BY <1>3 DEF Recv, Refilled
  <2>2. rcode = "NONE" /\ Avail = 0 /\ num_reqs # 0 /\ UNCHANGED given
    BY <1>3 DEF Recv, NeedData
  <2>3. Onward /\ NON_BLOCK
    BY <2>2 DEF Onward, StreamInv, NON_BLOCK, given
  <2>4. fin_resp < Len(stream) /\ Plain(m, NON_BLOCK) /\ rx \in Seq(Octets) /\ Len(rx) \in Nat
    <3>1. Plain(m, NON_BLOCK) /\ rx \in Seq(Octets) /\ num_reqs = Len(stream) - fin_resp
      BY <2>3, OnwardFacts
    <3>2. Len(stream) \in Nat /\ fin_resp \in 0 .. Len(stream)
      BY <2>3, OnwardFacts
    <3>3. fin_resp < Len(stream)
      BY <2>2, <3>1, <3>2
    <3>4. Len(rx) \in Nat
      BY <3>1
    <3> QED BY <3>1, <3>3, <3>4
  <2> DEFINE t == Compacted(m)
             d == SubSeq(rx, 1, n)
  <2>5. Len(t.buff) <= MAX_BUFF - CHUNK_SIZE
    BY <2>2, <2>3, <2>4, CompactedRoom
  <2>6. t \in StateM
    <3>1. m.buf_idx = Len(m.buff)
      BY <2>2, <2>3, NothingAhead
    <3>2. Plain(t, NON_BLOCK)
      BY <2>4, <3>1, CompactedGood
    <3> HIDE DEF t
    <3> QED BY <3>2 DEF Plain
  <2> HIDE DEF t
  <2>7. n \in 1..Len(rx)
    BY <1>1, <2>1, <2>4
  <2>8. t.buff \in Seq(Octets) /\ Len(t.buff) \in Nat
    BY <2>6 DEF StateM
  <2>9. Len(t.buff \o d) = Len(t.buff) + n
    <3> DEFINE b == t.buff
    <3>1. b \in Seq(Octets)
      BY <2>8
    <3> HIDE DEF b
    <3>2. Len(b \o d) = Len(b) + n
      BY <2>4, <2>7, <3>1, SplitRest
    <3> QED BY <3>2 DEF b
  <2>10. Refilled(t, d).buff = t.buff \o d
    BY <2>6 DEF Refilled, StateM
  <2>11. Len(state_m'.buff) = Len(t.buff) + n
    BY <2>1, <2>9, <2>10 DEF t
  <2> HIDE DEF d
  <2> QED BY <1>1, <2>5, <2>7, <2>8, <2>11, <2>1
<1>4. CASE RecvEof
  <2>1. state_m'.buff = <<>>
    BY <1>4 DEF RecvEof, Fresh
  <2> QED BY <1>1, <2>1
<1>5. CASE NothingExpected
  <2>1. NON_BLOCK /\ state_m' = m
    BY <1>5 DEF NothingExpected, given, NON_BLOCK, m
  <2> QED BY <2>1 DEF BufferHasRoom
<1>6. CASE UNCHANGED vars
  <2>1. NON_BLOCK /\ state_m' = m
    BY <1>6 DEF vars, given, NON_BLOCK, m
  <2> QED BY <2>1 DEF BufferHasRoom
<1> QED BY <1>2, <1>3, <1>4, <1>5, <1>6 DEF Next, Returned

-----------------------------------------------------------------------------
(* The drivers. *)

LEMMA StreamInit == ASSUME AllReadable, Init PROVE StreamInv
<1> DEFINE w == OctetsOf(stream)
<1>1. stream \in Streams /\ w \in Seq(Octets) /\ Len(w) \in Nat /\ Len(stream) \in Nat /\ Len(stream) > 0
  BY StreamType, ParserAssumption DEF Init
<1>2. size \in 0..Len(w)
  BY <1>1 DEF Init
<1>3. rx = SubSeq(w, 1, size) /\ state_m = Fresh /\ num_reqs = Len(stream) /\ fin_resp = 0 /\ rcode = "NONE"
  BY DEF Init
<1>4. /\ Fresh.buff = <<>> /\ Fresh.buf_idx = 0 /\ Fresh.last_fin_idx = 0 /\ Fresh.resp = NoHeader
      /\ Is(Fresh, "VER", 0) /\ NoBody(Fresh)
  BY DEF Fresh, Is, NoBody
<1> HIDE DEF w
<1>5. Len(rx) = size /\ \A i \in 1..size : rx[i] = w[i]
  <2>1. 1 \in Int /\ size \in Int /\ \A i \in 1..size : w[i] \in Octets
    BY <1>1, <1>2
  <2>2. Len(rx) = (IF 1 <= size THEN size - 1 + 1 ELSE 0) /\ \A i \in 1 .. size - 1 + 1 : rx[i] = w[1 + i - 1]
    BY <1>3, <2>1, SubSeqProperties
  <2>3. \A i \in 1..size : i \in 1 .. size - 1 + 1 /\ 1 + i - 1 = i
    BY <1>2
  <2> QED BY <1>2, <2>2, <2>3
<1>6. Passed(size, rx, Fresh) = 0
  BY <1>2, <1>4, <1>5 DEF Passed
<1>7. Sees(stream, size, rx, Fresh)
  <2>1. size <= Len(w) /\ Len(rx) <= size /\ Len(Fresh.buff) <= size - Len(rx)
    BY <1>1, <1>2, <1>4, <1>5
  <2>2. \A i \in 1..Len(rx) : rx[i] = w[(size - Len(rx)) + i]
    BY <1>2, <1>5
  <2>3. \A i \in 1..Len(Fresh.buff) - Fresh.buf_idx : FALSE
    BY <1>4
  <2> QED BY <2>1, <2>2, <2>3 DEF Sees, w
<1>8. Counts(stream, driver, num_reqs, fin_resp)
  BY <1>1, <1>3 DEF Counts
<1>9. Len(Upto(stream, fin_resp)) = 0
  BY <1>1, <1>3, UptoEnds
<1>10. Amid(Fresh, stream[fin_resp + 1], 0)
  <2>1. 0 \in 0 .. Len(stream) - 1 /\ Fresh.buf_idx = Fresh.last_fin_idx /\ Fresh.last_fin_idx \in Nat
    BY <1>1, <1>4
  <2>2. Amid(Fresh, stream[0 + 1], 0)
    BY <1>1, <1>4, <2>1, NewAmid
  <2> QED BY <1>3, <2>2
<1>11. 0 <= 0 /\ 0 - 0 = 0
  OBVIOUS
<1>12. Going(stream, size, driver, rx, Fresh, num_reqs, fin_resp)
  BY <1>6, <1>7, <1>8, <1>9, <1>10, <1>11 DEF Going
<1> QED BY <1>3, <1>12 DEF StreamInv

\* The server closes in the middle of a response.
LEMMA RecvEofStream == ASSUME Onward, RecvEof PROVE StreamInv' /\ fin_resp' = fin_resp
<1>1. /\ rcode' = "CLOSE" /\ fin_resp' = fin_resp /\ stream' = stream /\ size' = size /\ driver' = driver
      /\ rx = <<>> /\ num_reqs # 0 /\ Avail = 0
  BY DEF RecvEof, NeedData, given
<1>2. fin_resp < Len(stream) /\ size \in Nat
  BY <1>1, OnwardFacts
<1>3. size = Start + Here
  <2>1. Passed(size, rx, m) = size - Len(rx)
    BY <1>1, NothingAhead
  <2>2. Len(rx) = 0
    BY <1>1
  <2> QED BY <1>2, <2>1, <2>2, CurrentFacts
<1>4. Start <= size /\ size < LengthOf(fin_resp + 1)
  <2> DEFINE e == LengthOf(fin_resp + 1)
             n == Len(Current.octets)
             a == Start
             c == Here
  <2>1. a \in Nat /\ c \in Nat /\ n \in Nat /\ c < n /\ e = a + n /\ size = a + c
    BY <1>2, <1>3, CurrentFacts DEF Placing, LengthOf, Upto
  <2> HIDE DEF e, n, a, c
  <2>2. a <= size /\ size < e
    BY <2>1
  <2> QED BY <2>2 DEF e, a
<1>5. LengthOf(fin_resp)' = Start /\ LengthOf(fin_resp + 1)' = LengthOf(fin_resp + 1)
  BY <1>1 DEF LengthOf, Start, Upto
<1>6. Verdict'
  BY <1>1, <1>2, <1>4, <1>5 DEF Verdict
<1> QED BY <1>1, <1>6 DEF StreamInv

LEMMA NothingExpectedStream == ASSUME Onward, NothingExpected PROVE StreamInv' /\ fin_resp' = fin_resp
<1>1. /\ rcode' = (IF NON_BLOCK THEN "FIN" ELSE "POLL_DATA") /\ fin_resp' = fin_resp /\ stream' = stream
      /\ driver' = driver /\ num_reqs = 0
  BY DEF NothingExpected, given
<1>2. fin_resp = Len(stream) /\ Counts(stream, driver, num_reqs, fin_resp)
  BY <1>1, OnwardFacts
<1>3. ASSUME NEW k \in 1..fin_resp PROVE Meant'[k] = "FIN"
  <2>1. Meant'[k] = CASE ~NON_BLOCK /\ stream[k].verdict = "CLOSE"      -> "FIN"
                      [] NON_BLOCK /\ stream[k].verdict = "NOT_SUPPORT" -> "ERROR"
                      [] OTHER -> stream[k].verdict
    BY <1>1, <1>2 DEF Meant, NON_BLOCK
  <2>2. stream[k].verdict = "FIN" \/ (~NON_BLOCK /\ stream[k].verdict = "CLOSE")
    BY <1>2 DEF Counts, NON_BLOCK
  <2> QED BY <2>1, <2>2
<1>4. Verdict'
  BY <1>1, <1>2, <1>3 DEF Verdict
<1> QED BY <1>1, <1>4 DEF StreamInv

LEMMA StreamStep ==
  ASSUME AllReadable, ParserInv, StreamInv, ParserInv', [Next]_vars
  PROVE  StreamInv' /\ (fin_resp' = fin_resp + 1 => Consumed' = LengthOf(fin_resp'))
<1>1. fin_resp \in Nat /\ fin_resp # fin_resp + 1
  BY DEF ParserInv, Typed
<1>2. rcode = "NONE" => Onward
  BY DEF Onward, StreamInv
<1>3. CASE http_resp_parser
  <2>1. Round
    BY <1>3 DEF http_resp_parser, SkipAll, EndBody, EndChunk, OnCR, OnLF, OnSP, OnColon, OnOther, InHeader
  <2> QED BY <1>2, <1>3, <2>1, RoundInv DEF Round
<1>4. CASE Recv
  BY <1>1, <1>2, <1>4, RecvStream DEF Recv, NeedData
<1>5. CASE RecvEof
  BY <1>1, <1>2, <1>5, RecvEofStream DEF RecvEof, NeedData
<1>6. CASE NothingExpected
  BY <1>1, <1>2, <1>6, NothingExpectedStream DEF NothingExpected, NeedData
<1>7. CASE UNCHANGED vars
  <2>1. /\ stream' = stream /\ size' = size /\ driver' = driver /\ rx' = rx /\ state_m' = state_m
        /\ num_reqs' = num_reqs /\ fin_resp' = fin_resp /\ rcode' = rcode
    BY <1>7 DEF vars, given, calls
  <2>2. Verdict' = Verdict
    BY <2>1 DEF Verdict, Meant, NON_BLOCK, LengthOf
  <2>3. StreamInv'
    BY <2>1, <2>2 DEF StreamInv
  <2> QED BY <1>1, <2>1, <2>3
<1> QED BY <1>3, <1>4, <1>5, <1>6, <1>7 DEF Next, Returned

LEMMA StreamAlways == ASSUME AllReadable PROVE Spec => [](ParserInv /\ StreamInv)
<1>1. Init => ParserInv /\ StreamInv
  BY ParserInit, StreamInit
<1>2. (ParserInv /\ StreamInv) /\ [Next]_vars => (ParserInv /\ StreamInv)'
  <2> SUFFICES ASSUME ParserInv, StreamInv, [Next]_vars PROVE ParserInv' /\ StreamInv'
    OBVIOUS
  <2>1. ParserInv'
    BY ParserNext
  <2> QED BY <2>1, StreamStep
<1> QED BY <1>1, <1>2, PTL DEF Spec

-----------------------------------------------------------------------------
(* Theorems. *)

\* Whatever a server sends, however recv() cuts it and whenever the buffer is
\* compacted, last_fin_idx, buf_idx and data_size stay in order, and what is
\* kept of the buffer lies within it (http_new_state_machine.c:480-513, 655-680).
THEOREM TypeCorrect == Spec => []TypeOK
<1>1. ParserInv => TypeOK
  BY DEF ParserInv, Typed, TypeOK, Good, Over, Plain, Ordered, m, Rcodes
<1> QED BY <1>1, ParserAlways, PTL

\* The field names kb knows, where they stand in a stream, being spelled as in
\* a head, the place kept for a value leads to it for as long as the head is
\* parsed, compactions included (update_res_header_idx).
THEOREM FieldsAreFound == ASSUME Spelled PROVE Spec => []FieldsFound
<1>1. ParserInv => FieldsFound
  <2> SUFFICES ASSUME ParserInv, m.p_state \in HeadStates, NEW n \in m.resp.dirty
               PROVE  \/ m.p_state = "FIELD_VALUE" /\ n = m.resp.curr_bit
                      \/ /\ m.resp.idx[n] - 1 > m.last_fin_idx
                         /\ m.resp.idx[n] <= Len(m.buff)
                         /\ m.buff[m.resp.idx[n] - 1] = n /\ m.buff[m.resp.idx[n]] = COLON
    BY DEF FieldsFound, HeadStates
  <2>1. Found(m)
    BY DEF ParserInv, Good, Spell, Heading, Over, m
  <2> QED BY <2>1 DEF Found, At
<1> QED BY <1>1, ParserAlways, PTL

\* However recv() cuts what a server sends, and whatever compaction moves, a
\* driver comes back with what the server meant by it (read_response of both
\* drivers; what kind of stream is in RespGrammar).
THEOREM VerdictsAreMeant == ASSUME AllReadable PROVE Spec => []Verdict
<1>1. Spec => [](ParserInv /\ StreamInv)
  BY StreamAlways
<1>2. ParserInv /\ StreamInv => Verdict
  <2>1. CASE rcode = "NONE"
    BY <2>1 DEF Verdict
  <2>2. CASE rcode # "NONE"
    BY <2>2 DEF StreamInv
  <2> QED BY <2>1, <2>2
<1> QED BY <1>1, <1>2, PTL

\* The parser ends a response exactly where the server ended it.
THEOREM ResponsesEndThere == ASSUME AllReadable PROVE Spec => EndsWhereSent
<1>1. Spec => [](ParserInv /\ StreamInv)
  BY StreamAlways
<1>2. (ParserInv /\ StreamInv) /\ [Next]_vars
        => [fin_resp' = fin_resp + 1 => Consumed' = LengthOf(fin_resp')]_vars
  <2> SUFFICES ASSUME ParserInv, StreamInv, [Next]_vars
               PROVE  fin_resp' = fin_resp + 1 => Consumed' = LengthOf(fin_resp')
    OBVIOUS
  <2>1. ParserInv'
    BY ParserNext
  <2> QED BY <2>1, StreamStep
<1> QED BY <1>1, <1>2, PTL DEF Spec, EndsWhereSent

\* In the non-blocking driver the buffer has room for what recv() is asked for,
\* as long as the head of a response does not fill it.
THEOREM RoomForRecv ==
  ASSUME AllReadable, \A s \in Streams : ShortHeads(s) PROVE Spec => []BufferHasRoom
<1>1. Spec => [](ParserInv /\ StreamInv)
  BY StreamAlways
<1>2. Init => BufferHasRoom
  <2> SUFFICES ASSUME Init PROVE BufferHasRoom
    OBVIOUS
  <2>1. m.buff = <<>>
    BY DEF Init, Fresh, m
  <2> QED BY <2>1, BuffSize DEF BufferHasRoom
<1>3. BufferHasRoom /\ (ParserInv /\ StreamInv) /\ [Next]_vars => BufferHasRoom'
  <2> SUFFICES ASSUME BufferHasRoom, ParserInv, StreamInv, [Next]_vars PROVE BufferHasRoom'
    OBVIOUS
  <2>1. ParserInv'
    BY ParserNext
  <2> QED BY <2>1, RoomStep
<1> QED BY <1>1, <1>2, <1>3, PTL DEF Spec
=============================================================================
