---------------------------- MODULE MacroExpansion ----------------------------
(***************************************************************************)
(* The second pass of preprocess.go: macros in a line of assembly.         *)
(*                                                                         *)
(* A text is a sequence of items.  An item is a token, or a name with      *)
(* arguments in parentheses, each a text.  A macro is a record of its      *)
(* parameters, whether it is function-like, and its body; tables of macros *)
(* are functions from names.  Names are whole tokens: what the code does   *)
(* to a name inside a longer one ($NAME, dots) is not modelled.            *)
(***************************************************************************)
EXTENDS Naturals, Sequences, SequencesExt

CONSTANT MaxDepth   \* 16: the nesting at which expansion stops

Token(id) == [id |-> id, call |-> FALSE, args |-> <<>>]
Call(id, args) == [id |-> id, call |-> TRUE, args |-> args]
NewLine == Token("newline")
Semicolon == Token(";")

ObjectLike(table, n) == n \in DOMAIN table /\ ~table[n].fn
FunctionLike(table, n) == n \in DOMAIN table /\ table[n].fn

(* Every item of a text, and of the arguments in it, replaced by Of(item), *)
(* a text; the arguments are left alone where Stop(item).                  *)
Rewrite(text, Of(_), Stop(_)) ==
  LET RECURSIVE R(_)
      R(t) == FlattenSeq([i \in DOMAIN t |->
                IF Stop(t[i]) THEN Of(t[i])
                ELSE <<[t[i] EXCEPT !.args = [j \in DOMAIN @ |-> R(@[j])]]>>])
  IN R(text)

(* replaceMacroParams: all parameters at once. *)
Substitute(m, args) ==
  LET IsParam(it) == ~it.call /\ \E p \in DOMAIN m.params : m.params[p] = it.id
      Argument(it) == args[CHOOSE p \in DOMAIN m.params : m.params[p] = it.id]
  IN Rewrite(m.body, Argument, IsParam)

Calls(it, n, m) == it.call /\ it.id = n /\ Len(it.args) = Len(m.params)

(* expandInlineMacroCalls: the calls of one macro, not those in its        *)
(* arguments.                                                              *)
ExpandInlineCalls(text, n, m) ==
  LET Matches(it) == Calls(it, n, m)
      Body(it) == Substitute(m, it.args)
  IN Rewrite(text, Body, Matches)

(* One name of expandIdentMacros.  An empty body is not inserted.          *)
ExpandIdent(text, n, m) ==
  LET Matches(it) == ~it.call /\ it.id = n
      Body(it) == m.body
  IN IF m.body = <<>> THEN text ELSE Rewrite(text, Body, Matches)

(* The names of the table one after the other, in the order given.         *)
RECURSIVE InlineAll(_, _, _), IdentAll(_, _, _)
InlineAll(text, order, table) ==
  IF order = <<>> THEN text
  ELSE LET n == Head(order)
       IN InlineAll(IF table[n].fn THEN ExpandInlineCalls(text, n, table[n]) ELSE text,
                    Tail(order), table)
IdentAll(text, order, table) ==
  IF order = <<>> THEN text
  ELSE LET n == Head(order)
       IN IdentAll(IF table[n].fn THEN text ELSE ExpandIdent(text, n, table[n]),
                   Tail(order), table)

(* The parts of a text between separators. *)
RECURSIVE Split(_, _)
Split(text, separators) ==
  IF \E i \in DOMAIN text : text[i] \in separators
  THEN LET i == CHOOSE k \in DOMAIN text :
                  /\ text[k] \in separators
                  /\ \A j \in 1..k - 1 : text[j] \notin separators
       IN <<SubSeq(text, 1, i - 1)>>
          \o Split(SubSeq(text, i + 1, Len(text)), separators)
  ELSE <<text>>

(* parseMacroCall: a line that is one call, with a semicolon or without.   *)
IsWholeCall(text, table) ==
  /\ text # <<>> /\ FunctionLike(table, text[1].id)
  /\ Calls(text[1], text[1].id, table[text[1].id])
  /\ Tail(text) \in {<<>>, <<Semicolon>>}
IsWholeName(text, table) ==
  Len(text) = 1 /\ ~text[1].call /\ ObjectLike(table, text[1].id)

(* expandPPLine: the lines a line becomes.  order is that of macroNames.   *)
RECURSIVE ExpandLine(_, _, _, _)
ExpandLine(text, order, table, depth) ==
  LET Chunks(body) ==
        LET parts == Split(body, {NewLine})
        IN FlattenSeq([i \in DOMAIN parts |->
                         ExpandLine(parts[i], order, table, depth + 1)])
      inline == InlineAll(text, order, table)
      idents == IdentAll(text, order, table)
  IN IF depth >= MaxDepth \/ text = <<>> THEN <<text>>
     ELSE IF IsWholeCall(text, table)
     THEN Chunks(Substitute(table[text[1].id], text[1].args))
     ELSE IF IsWholeName(text, table) THEN Chunks(table[text[1].id].body)
     ELSE IF inline # text THEN ExpandLine(inline, order, table, depth + 1)
     ELSE IF idents # text THEN ExpandLine(idents, order, table, depth + 1)
     ELSE <<text>>

(* What Parse reads of lines: statements, between semicolons and line ends.*)
Statements(lines) ==
  LET parts == [i \in DOMAIN lines |-> Split(lines[i], {NewLine, Semicolon})]
  IN SelectSeq(FlattenSeq(parts), LAMBDA s : s # <<>>)

------------------------------------------------------------------------------
(* The assembler's lexer: a macro is replaced where it is read, and its    *)
(* body is read again.                                                     *)
RECURSIVE Lex(_, _)
Lex(text, table) ==
  LET Replaced(it) == IF it.call THEN FunctionLike(table, it.id)
                                      /\ Calls(it, it.id, table[it.id])
                      ELSE ObjectLike(table, it.id)
      Body(it) == Lex(IF it.call THEN Substitute(table[it.id], it.args)
                      ELSE table[it.id].body, table)
  IN Rewrite(text, Body, Replaced)

RECURSIVE IdsIn(_)
IdsIn(text) ==
  UNION {{text[i].id} \cup UNION {IdsIn(text[i].args[j]) : j \in DOMAIN text[i].args} :
         i \in DOMAIN text}
==============================================================================
