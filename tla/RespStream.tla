----------------------------- MODULE RespStream -----------------------------
(***************************************************************************)
(* The response parser as the connection managers see it: a stream of head *)
(* and body tokens, and for each token what http_resp_parser makes of it.  *)
(* How it gets there byte by byte is the subject of module RespParser.     *)
(***************************************************************************)
EXTENDS Naturals, Sequences

(***************************************************************************)
(* p_state as far as it matters between two responses:                     *)
(*   VER   nothing of a response parsed yet                                *)
(*   BODY  head parsed, body still to come                                 *)
(*   GARB  bytes that begin no response have been taken for its status line *)
(*   DONE  a response is finished or given up, and nothing has been reset  *)
(***************************************************************************)
ParserStates == {"VER", "BODY", "GARB", "DONE"}

\* rcode of a stop, and the status the response object shows afterwards.
Stops == {"REDIRECT", "SERVER_ERR", "CLIENT_ERR", "NOT_SUPPORT", "ERROR"}

CleanParser == [buf |-> <<>>, p_state |-> "VER", is_close |-> FALSE, status |-> "none"]

\* Mutant: the reset forgets buf_idx and data_size.
ResetKeepsBuffer(m) == [CleanParser EXCEPT !.buf = m.buf]

\* reset_parsing_state_machine
ResetParser(m) == CleanParser

\* What http_resp_parser may do with token t in state m (its buffer apart):
\* go on, finish a response, or stop with an rcode.
Outcome(res, p, cl, st) == [res |-> res, p_state |-> p, is_close |-> cl, status |-> st]

Parse(m, t) ==
  CASE m.p_state = "VER" /\ t = "ok"       -> {Outcome("MORE", "BODY", FALSE, t)}
    [] m.p_state = "VER" /\ t = "close"    -> {Outcome("MORE", "BODY", TRUE, t)}
    [] m.p_state = "VER" /\ t = "empty"    -> {Outcome("FINISH", "DONE", FALSE, t)}
    [] m.p_state = "VER" /\ t = "redirect" -> {Outcome("REDIRECT", "DONE", FALSE, t)}
    [] m.p_state = "VER" /\ t = "err5"     -> {Outcome("SERVER_ERR", "DONE", FALSE, t)}
    [] m.p_state = "VER" /\ t \in {"keep4", "close4"} -> {Outcome("CLIENT_ERR", "DONE", FALSE, t)}
    \* a status code that is not in the table
    [] m.p_state = "VER" /\ t = "odd"      -> {Outcome("NOT_SUPPORT", "GARB", FALSE, "none")}
    [] m.p_state = "BODY" /\ t = "body"    -> {Outcome("FINISH", "DONE", m.is_close, m.status)}
    \* the body of a dropped response, met where a version is expected: without
    \* a space it is kept as a prefix of the next version, a final newline
    \* clears it, a space makes it an unsupported version
    [] m.p_state \in {"VER", "GARB"} /\ t = "body" ->
         {Outcome("MORE", "VER", FALSE, "none"), Outcome("MORE", "GARB", FALSE, "none"),
          Outcome("NOT_SUPPORT", "GARB", FALSE, "none")}
    [] m.p_state = "GARB" -> {Outcome("ERROR", "GARB", FALSE, "none")}
    [] OTHER -> {Outcome("MORE", m.p_state, m.is_close, m.status)}
=============================================================================
