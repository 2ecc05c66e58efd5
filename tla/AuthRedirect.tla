---------------------------- MODULE AuthRedirect ----------------------------
(***************************************************************************)
(* The last step of /callback/google in both servers: the redirect that    *)
(* hands the one-time code and the client's own state back to the client   *)
(* (authorization_server.rs).  Texts are sequences of Unicode code points. *)
(***************************************************************************)
EXTENDS Integers, Sequences, SequencesExt

Percent == 37
Ampersand == 38
Equals == 61
QuestionMark == 63

CodePoints == {c \in Nat : c < 1114112}

\* str::as_bytes.
Utf8(c) ==
    LET Continued(n) == 128 + (n % 64)
    IN  IF c < 128 THEN <<c>>
        ELSE IF c < 2048 THEN <<192 + (c \div 64), Continued(c)>>
        ELSE IF c < 65536 THEN <<224 + (c \div 4096), Continued(c \div 64), Continued(c)>>
        ELSE <<240 + (c \div 262144), Continued(c \div 4096), Continued(c \div 64), Continued(c)>>

as_bytes(s) == FlattenSeq([i \in DOMAIN s |-> Utf8(s[i])])

Unreserved == (48..57) \cup (65..90) \cup (97..122) \cup {45, 46, 95, 126}

HexDigit(d) == IF d % 16 < 10 THEN 48 + (d % 16) ELSE 55 + (d % 16)

\* {:02X}: two digits, or as many as the number needs.
Hex(n) ==
    LET six == <<HexDigit(n \div 1048576), HexDigit(n \div 65536), HexDigit(n \div 4096),
                 HexDigit(n \div 256), HexDigit(n \div 16), HexDigit(n)>>
        unused == IF n < 256 THEN 4 ELSE IF n < 4096 THEN 3 ELSE IF n < 65536 THEN 2
                  ELSE IF n < 1048576 THEN 1 ELSE 0
    IN  SubSeq(six, unused + 1, 6)

Escape(n) == IF n \in Unreserved THEN <<n>> ELSE <<Percent>> \o Hex(n)

\* Gen 1 escapes every character by its code point ...
EscapedChars(s) == FlattenSeq([i \in DOMAIN s |-> Escape(s[i])])

\* ... gen 2 every byte.
EscapedBytes(s) == EscapedChars(as_bytes(s))

urlencoding(generation, s) == IF generation = 1 THEN EscapedChars(s) ELSE EscapedBytes(s)

CodeParam == <<99, 111, 100, 101, Equals>>
StateParam == <<115, 116, 97, 116, 101, Equals>>

\* Mutant: the code always starts a query.
RedirectUrlNewQuery(generation, redirect_uri, code, states) ==
    LET state == IF states = <<>> THEN <<>>
                 ELSE <<Ampersand>> \o StateParam \o urlencoding(generation, states[1])
    IN  redirect_uri \o <<QuestionMark>> \o CodeParam \o code \o state

\* states is empty when the client sent no state.
RedirectUrl(generation, redirect_uri, code, states) ==
    LET sep == IF Contains(redirect_uri, QuestionMark) THEN Ampersand ELSE QuestionMark
        state == IF states = <<>> THEN <<>>
                 ELSE <<Ampersand>> \o StateParam \o urlencoding(generation, states[1])
    IN  redirect_uri \o <<sep>> \o CodeParam \o code \o state
=============================================================================
