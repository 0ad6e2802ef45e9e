----------------------------- MODULE EngineRequest -----------------------------
(***************************************************************************)
(* get and decode_chunked of src/collectors/docker.rs: one request to the  *)
(* container engine, whose answer may be cut off anywhere, by the engine,  *)
(* its death or the limit on what is read, or not come in time.            *)
(*                                                                         *)
(* The answer is a sequence of symbols, of which the head is one.  The     *)
(* payload is what the engine means to say, a JSON array: the bracket that *)
(* ends it is its last symbol, and one inside is a symbol like others.     *)
(* The engine and its framing are external.                                *)
(***************************************************************************)
EXTENDS Integers, Sequences, FiniteSetsExt

CONSTANTS
    Payloads,       \* JSON arrays: sequences of symbols from "[" to "]"
    Radix,          \* 16
    MaxDigits       \* of a size

Digit == <<"0", "1", "2", "3", "4", "5", "6", "7", "8", "9", "a", "b", "c", "d", "e", "f">>

ASSUME EngineAssumption ==
    /\ Radix \in 2 .. 16 /\ MaxDigits \in Nat
    /\ Payloads \subseteq Seq(STRING)
    /\ \A p \in Payloads : p # << >> /\ \A i \in 1 .. Len(p) : p[i] = "]" => i = Len(p)

VARIABLES
    payload,
    framing,        \* [chunked, extension]: how the engine sends it
    sent,           \* what the engine has sent
    told,           \* how much of the payload is in it
    ended,          \* has the engine sent the last chunk
    marks,          \* history: [told, at] where a chunk begins
    step,           \* of the client: "read", "decode" or "done"
    rest, out,      \* decode_chunked: what is left of the body, what is decoded
    reply           \* of get

responseVars == <<sent, told, ended, marks>>
requestVars == <<payload, framing, responseVars, step, rest, out, reply>>

Nothing == <<"None">>
CRLF == <<"CR", "LF">>

-----------------------------------------------------------------------------
(* The engine *)

(* A size in k digits is what remains of it in k divisions. *)
Quotients(size, k) ==
    LET q[i \in 0 .. k] == IF i = 0 THEN size ELSE q[i - 1] \div Radix IN q

Numeral(size, k) == [i \in 1 .. k |-> Digit[1 + (Quotients(size, k)[k - i] % Radix)]]

Numerals(size) == { Numeral(size, k) : k \in { j \in 1 .. MaxDigits : Quotients(size, j)[j] = 0 } }

Extensions == {<< >>, <<";", "x">>}

SendChunk(upto, digits) ==
    /\ step = "read" /\ framing.chunked /\ told < upto
    /\ sent' = sent \o digits \o framing.extension \o CRLF \o SubSeq(payload, told + 1, upto) \o CRLF
    /\ told' = upto
    /\ marks' = marks \cup {[told |-> upto, at |-> Len(sent')]}
    /\ UNCHANGED <<payload, framing, ended, step, rest, out, reply>>

SendLast(digits) ==
    /\ step = "read" /\ framing.chunked /\ told = Len(payload) /\ ~ended
    /\ sent' = sent \o digits \o CRLF \o CRLF
    /\ ended' = TRUE
    /\ UNCHANGED <<payload, framing, told, marks, step, rest, out, reply>>

(* What is sent at once. *)
Opened == IF framing.chunked THEN <<"head">> ELSE <<"head">> \o payload

FirstMark == [told |-> 0, at |-> 1]

RequestInit ==
    /\ payload \in Payloads
    /\ framing \in [chunked : BOOLEAN, extension : Extensions]
    /\ sent = Opened /\ told = 0 /\ ended = FALSE /\ marks = {FirstMark}
    /\ step = "read" /\ rest = << >> /\ out = << >> /\ reply = Nothing

-----------------------------------------------------------------------------
(* get *)

Answer(text) == step' = "done" /\ reply' = text

(* The connection is refused, or the answer does not come in time. *)
Fails ==
    /\ step = "read"
    /\ Answer(Nothing)
    /\ UNCHANGED <<payload, framing, responseVars, rest, out>>

(* What has come when the connection ends; without a whole head there is no
   answer, and none with another status. *)
ReadToEnd(ok, got) ==
    /\ step = "read"
    /\ IF got = << >> \/ ~ok THEN Answer(Nothing) /\ UNCHANGED rest
       ELSE IF framing.chunked THEN step' = "decode" /\ rest' = Tail(got) /\ UNCHANGED reply
       ELSE Answer(Tail(got)) /\ UNCHANGED rest
    /\ UNCHANGED <<payload, framing, responseVars, out>>

Value(digit) == CHOOSE v \in 0 .. Radix - 1 : Digit[v + 1] = digit

(* from_str_radix, one digit after the other. *)
NumberOf(digits) ==
    LET n[i \in 0 .. Len(digits)] == IF i = 0 THEN 0 ELSE n[i - 1] * Radix + Value(digits[i])
    IN  n[Len(digits)]

(* The digits up to a semicolon; -1 if they are no number. *)
SizeOf(line) ==
    LET semis  == { i \in 1 .. Len(line) : line[i] = ";" }
        digits == SubSeq(line, 1, IF semis = {} THEN Len(line) ELSE Min(semis) - 1)
    IN  IF digits # << >> /\ \A i \in 1 .. Len(digits) : \E v \in 1 .. Radix : digits[i] = Digit[v]
        THEN NumberOf(digits) ELSE -1

(* Mutant: the end of what came is taken for the end of the text. *)
UnfinishedTaken == out

(* No size line, or not all of a chunk and of the line end behind it. *)
Unfinished == Nothing

LineEnds(text) == { i \in 1 .. Len(text) - 1 : text[i] = "CR" /\ text[i + 1] = "LF" }

(* One turn of the loop of decode_chunked. *)
DecodeChunk ==
    /\ step = "decode"
    /\ IF LineEnds(rest) = {} THEN Answer(Unfinished) /\ UNCHANGED <<rest, out>>
       ELSE LET line_end == Min(LineEnds(rest))
                size     == SizeOf(SubSeq(rest, 1, line_end - 1))
                end      == line_end + 1 + size
            IN  IF size = -1 THEN Answer(Unfinished) /\ UNCHANGED <<rest, out>>
                ELSE IF size = 0 THEN Answer(out) /\ UNCHANGED <<rest, out>>
                ELSE IF end + 2 > Len(rest) THEN Answer(Unfinished) /\ UNCHANGED <<rest, out>>
                ELSE /\ out' = out \o SubSeq(rest, line_end + 2, end)
                     /\ rest' = SubSeq(rest, end + 3, Len(rest))
                     /\ UNCHANGED <<step, reply>>
    /\ UNCHANGED <<payload, framing, responseVars>>

NextRequest ==
    /\ step = "done"
    /\ sent' = Opened /\ told' = 0 /\ ended' = FALSE /\ marks' = {FirstMark}
    /\ step' = "read" /\ rest' = << >> /\ out' = << >> /\ reply' = Nothing
    /\ UNCHANGED <<payload, framing>>

RequestNext ==
    \/ NextRequest \/ Fails
    \/ \E upto \in 1 .. Len(payload) : \E digits \in Numerals(upto - told) : SendChunk(upto, digits)
    \/ \E digits \in Numerals(0) : SendLast(digits)
    \/ \E ok \in BOOLEAN, n \in 0 .. Len(sent) : ReadToEnd(ok, SubSeq(sent, 1, n))
    \/ DecodeChunk

RequestSpec == RequestInit /\ [][RequestNext]_requestVars

-----------------------------------------------------------------------------
(* Properties *)

(* The array that the text is, if it is one: serde_json::from_slice. *)
IsJson(text) == text # << >> /\ text[1] = "[" /\ text[Len(text)] = "]"

(* The caller is given all of what the engine said or nothing, wherever the
   connection ended and whatever the text looks like. An answer that is not
   chunked is not held against its length: what is cut off of one is refused
   because it is no JSON. *)
WholeOrNothing ==
    step = "done" /\ reply # Nothing /\ (framing.chunked \/ IsJson(reply)) => reply = payload
===============================================================================
