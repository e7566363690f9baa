--------------------------- MODULE MCRequestParser ---------------------------
(***************************************************************************)
(* A small instance of RequestParser and ParserTokens: for each parser one *)
(* verb that needs no argument, a letter that starts no verb, and reads of *)
(* every cut.                                                              *)
(***************************************************************************)
EXTENDS ParserTokens

Sequences(S, n) == UNION {[1..k -> S] : k \in 1..n}

MCByte == {"d", "q", "x", SP, CR, LF, Dot, NUL}

\* DATA, RSET, QUIT and NOOP are "d" here, XQUIT is "q".
MCWithoutArg == [READ |-> {<<"d">>}, ADMIN |-> {<<"q">>}, DATA |-> {}]

\* Text and a dot are told apart only in a body.
MCReads == [READ  |-> Sequences({"d", "x", SP, CR, LF, NUL}, 3),
            ADMIN |-> Sequences({"q", "x", SP, CR, LF, NUL}, 3),
            DATA  |-> Sequences({"x", Dot, CR, LF, NUL}, BufferSize)]

Typed(v, a) == [verb |-> v, arg |-> a]

MCTokens == {T!LF, T!Dot, Typed("DATA", T!NoArg), Typed("XQUIT", T!NoArg), Typed("?", T!NoArg), Typed("?", "host")}

MCSpelling == [DATA |-> <<"d">>, XQUIT |-> <<"q">>, host |-> <<"x">>] @@ ("?" :> <<"x">>) @@ ("." :> <<Dot>>)
=============================================================================
