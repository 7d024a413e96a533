------------------------------- MODULE MCMysh -------------------------------
\* Instances of Mysh for TLC.
EXTENDS Mysh

C(k) == [kind |-> k, redir |-> <<>>]
To(k, r) == [kind |-> k, redir |-> r]
MCMenu == {
  <<C("print"), C("|"), C("head"), C("|"), C("reader"), C("&&"), C("set"), C(";"), C("writer")>>,
  <<C("yes"), C("|"), C("head"), C("|"), C("reader"), C("||"), C("print"), C("&&"), C("exit")>>,
  <<C("yes"), C("|"), C("missing"), C("&&"), C("print"), C("||"), C("set"), C(";"), C("print")>>,
  <<C("writer"), C("|"), C("set"), C("|"), C("exit"), C("||"), C("head")>>,
  <<C("print"), C("|"), C("exit"), C("&&"), C("exit")>>,
  <<C("yes"), C("|"), C("reader"), C("|"), C("head"), C("|"), C("print"), C("&&"), C("missing")>>,
  <<To("print", <<<<">", "f">>>>), C(";"), To("reader", <<<<"<", "f">>, <<">", "g">>>>), C(";"), C("print")>>,
  <<To("writer", <<<<">", "f">>, <<"<", "none">>>>), C("||"), C("print"), C("|"),
    To("reader", <<<<"<", "f">>>>)>>,
  <<C("yes"), C("|"), To("reader", <<<<"<", "f">>>>), C(";"), C(";"), C("exit")>>,
  <<To("writer", <<<<">", "f">>>>), C("|"), C("reader"), C("&&")>> }
=============================================================================
