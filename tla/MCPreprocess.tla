----------------------------- MODULE MCPreprocess -----------------------------
EXTENDS Preprocess, TLC

T(ids) == [i \in DOMAIN ids |-> Token(ids[i])]
Line(op, name, text) ==
  [op |-> op, name |-> name, neg |-> FALSE, fn |-> FALSE, params |-> <<>>,
   text |-> text, more |-> FALSE, comment |-> "none"]
Fn(name, params, text, more) ==
  [Line("define", name, text) EXCEPT !.fn = TRUE, !.params = params, !.more = more]

(* A is an object, B one whose body names A, F a macro of two lines, G one *)
(* that calls F with its argument and B.                                   *)
Conditionals ==
  {Line("if", "A", <<>>), [Line("if", "B", <<>>) EXCEPT !.neg = TRUE],
   Line("elif", "A", <<>>),
   Line("else", "", <<>>), Line("endif", "", <<>>)}
Definitions ==
  {Line("define", "A", T(<<"1">>)),
   Line("define", "B", T(<<"A", "+", "2">>)),
   Fn("F", <<"x", "y">>, T(<<"MOV", "x">>) , TRUE)}
Texts ==
  {Line("text", "", T(<<"ADD", "y", "A">>)),
   [Line("text", "", T(<<"ADD", "y", "A">>)) EXCEPT !.more = TRUE],
   Line("text", "", <<Call("F", <<T(<<"B">>), T(<<"x">>)>>)>>)}
Others ==
  {Line("blank", "", <<>>),
   [Line("text", "", T(<<"B">>)) EXCEPT !.comment = "open"],
   [Line("endif", "", <<>>) EXCEPT !.comment = "close"]}
MCRare == {Line("blank", "", <<>>), Line("include", "", <<>>),
           Line("text", "", <<Call("F", <<T(<<"B">>), T(<<"x">>)>>)>>),
           [Line("text", "", T(<<"B">>)) EXCEPT !.comment = "open"]}
MCLines == Conditionals \cup Definitions \cup Texts \cup Others
           \cup {Line("include", "", <<>>)}
==============================================================================
