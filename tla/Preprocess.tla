------------------------------ MODULE Preprocess ------------------------------
(***************************************************************************)
(* preprocess.go: the lines of an assembly file, read once for comments,   *)
(* conditionals and definitions; the lines that remain are expanded when   *)
(* the whole file has been read.                                           *)
(*                                                                         *)
(* A line is a record: op, the name and the sense of a condition (neg), a  *)
(* macro's parameters, the text behind them, whether a backslash ends the  *)
(* line (more), and the part of a block comment on it: "open" behind the   *)
(* rest, "close" in front of it.  The file is chosen line by line.         *)
(***************************************************************************)
EXTENDS MacroExpansion, FiniteSetsExt

CONSTANTS
  SourceLines,  \* the lines files are made of
  Rare,         \* those of which a file has at most one
  MaxLines      \* the longest file

VARIABLES
  file,            \* the lines read so far
  macros,          \* what #define has put into the table
  lines,           \* the lines that remain
  active, ifStack, \* of [outerActive, cond, inElse]
  inBlockComment,
  def,             \* the definition that goes on; def.on is defCont
  output,          \* lists of lines
  phase            \* "lines", "done" or "error"

vars == <<file, macros, lines, active, ifStack, inBlockComment, def, output, phase>>

NoDef == [on |-> FALSE, name |-> "", fn |-> FALSE, params |-> <<>>, body |-> <<>>]

Init ==
  /\ file = <<>> /\ macros = <<>> /\ lines = <<>> /\ output = <<>>
  /\ active = TRUE /\ ifStack = <<>>
  /\ inBlockComment = FALSE /\ def = NoDef
  /\ phase = "lines"

(* Lines a source has: comments are not nested, a backslash ends a         *)
(* definition or the line of one, and no macro is defined twice or names   *)
(* itself.                                                                 *)
Legal(l) ==
  /\ l.comment = "close" => inBlockComment
  /\ l.comment = "open" => ~inBlockComment
  /\ l.more => l.op = "define" \/ (l.op = "text" /\ def.on)
  /\ def.on => /\ l.op \in {"text", "blank"} /\ l.comment = "none"
               /\ def.name \notin IdsIn(l.text)
  /\ l.op = "define" => l.name \notin DOMAIN macros

(* The line as its directives see it: without comments. *)
Hidden(l) == inBlockComment /\ l.comment # "close"
Comment(l) == inBlockComment' = CASE l.comment = "open"  -> TRUE
                                  [] l.comment = "close" -> FALSE
                                  [] OTHER               -> inBlockComment

flushDefine(d) ==
  macros' = [n \in DOMAIN macros \cup {d.name} |->
               IF n = d.name THEN [fn |-> d.fn, params |-> d.params, body |-> d.body]
               ELSE macros[n]]

\* mutant: a body of several lines on one line
JoinOnOneLine(body, text) == body \o text

(* The next line of a body, trimmed at the end. *)
Join(body, text) == IF body = <<>> THEN text ELSE body \o <<NewLine>> \o text

isDefined(n) == n \in DOMAIN macros
evalIfExpr(l) == isDefined(l.name) # l.neg
Top == ifStack[Len(ifStack)]
Push(st) == ifStack' = Append(ifStack, st)
Replace(st) == ifStack' = [ifStack EXCEPT ![Len(ifStack)] = st]
Error ==
  /\ phase' = "error"
  /\ UNCHANGED <<macros, lines, active, ifStack, def, output>>

------------------------------------------------------------------------------
(* The cases of the loop over the lines, for line l. *)

Blank(l) ==
  /\ Hidden(l) \/ l.op = "blank"
  /\ IF def.on THEN flushDefine(def) ELSE UNCHANGED macros
  /\ def' = NoDef
  /\ UNCHANGED <<lines, active, ifStack, output, phase>>

(* defCont: only an active #define sets it, and no directive is read until *)
(* it is reset, so the test of active in this case never fails.            *)
ContinueDefine(l) ==
  /\ def.on
  /\ LET d == [def EXCEPT !.body = Join(@, l.text)]
     IN IF l.more THEN def' = d /\ UNCHANGED macros
        ELSE def' = NoDef /\ flushDefine(d)
  /\ UNCHANGED <<lines, active, ifStack, output, phase>>

Ignored(l) ==
  /\ l.op \in {"include", "undef"}
  /\ UNCHANGED <<macros, lines, active, ifStack, def, output, phase>>

(* #ifdef, #ifndef and #if. *)
If(l) ==
  /\ l.op = "if"
  /\ LET st == [outerActive |-> active, cond |-> evalIfExpr(l), inElse |-> FALSE]
     IN Push(st) /\ active' = (active /\ st.cond)
  /\ UNCHANGED <<macros, lines, def, output, phase>>

\* mutant: a branch behind the one that was taken
ElifAgain(l) ==
  /\ l.op = "elif"
  /\ IF ifStack = <<>> \/ (ifStack # <<>> /\ Top.inElse) THEN Error
     ELSE /\ Replace([Top EXCEPT !.cond = evalIfExpr(l)])
          /\ active' = (Top.outerActive /\ evalIfExpr(l))
          /\ UNCHANGED <<macros, lines, def, output, phase>>

Elif(l) ==
  /\ l.op = "elif"
  /\ IF ifStack = <<>> \/ (ifStack # <<>> /\ Top.inElse) THEN Error
     ELSE /\ IF Top.cond THEN active' = FALSE /\ UNCHANGED ifStack
             ELSE /\ Replace([Top EXCEPT !.cond = evalIfExpr(l)])
                  /\ active' = (Top.outerActive /\ evalIfExpr(l))
          /\ UNCHANGED <<macros, lines, def, output, phase>>

Else(l) ==
  /\ l.op = "else"
  /\ IF ifStack = <<>> \/ (ifStack # <<>> /\ Top.inElse) THEN Error
     ELSE /\ Replace([Top EXCEPT !.inElse = TRUE])
          /\ active' = (Top.outerActive /\ ~Top.cond)
          /\ UNCHANGED <<macros, lines, def, output, phase>>

Endif(l) ==
  /\ l.op = "endif"
  /\ IF ifStack = <<>> THEN Error
     ELSE /\ ifStack' = Front(ifStack)
          /\ active' = Top.outerActive
          /\ UNCHANGED <<macros, lines, def, output, phase>>

Define(l) ==
  /\ l.op = "define"
  /\ LET d == [on |-> TRUE, name |-> l.name, fn |-> l.fn, params |-> l.params,
               body |-> l.text]
     IN IF ~active THEN UNCHANGED <<def, macros>>
        ELSE IF l.more THEN def' = d /\ UNCHANGED macros
        ELSE flushDefine(d) /\ UNCHANGED def
  /\ UNCHANGED <<lines, active, ifStack, output, phase>>

Text(l) ==
  /\ l.op = "text"
  /\ lines' = IF active THEN Append(lines, l.text) ELSE lines
  /\ UNCHANGED <<macros, active, ifStack, def, output, phase>>

Directive(l) ==
  Ignored(l) \/ If(l) \/ Elif(l) \/ Else(l) \/ Endif(l) \/ Define(l) \/ Text(l)

(* Groups that could not be closed within MaxLines are not opened. *)
Bounded(l) ==
  /\ Len(file) < MaxLines
  /\ l \in Rare => \A i \in DOMAIN file : file[i] \notin Rare
  /\ l.op = "if" => Len(file) + Len(ifStack) + 2 =< MaxLines

ReadLine(l) ==
  /\ phase = "lines"
  /\ Legal(l) /\ Bounded(l)
  /\ file' = Append(file, l)
  /\ Comment(l)
  /\ \/ Blank(l)
     \/ ~Hidden(l) /\ l.op # "blank" /\ ContinueDefine(l)
     \/ ~Hidden(l) /\ ~def.on /\ Directive(l)

(* The end of the file, and the second pass.  macroNames has longer names  *)
(* first and equally long ones in the order of a Go map: any order.        *)
EndOfFile ==
  /\ phase = "lines"
  /\ IF def.on THEN flushDefine(def) ELSE UNCHANGED macros
  /\ def' = NoDef
  /\ IF ifStack # <<>> THEN phase' = "error" /\ UNCHANGED output
     ELSE /\ phase' = "done"
          /\ \E order \in SetToSeqs(DOMAIN macros') :
               output' = FlattenSeq([i \in DOMAIN lines |->
                                       ExpandLine(lines[i], order, macros', 0)])
  /\ UNCHANGED <<file, lines, active, ifStack, inBlockComment>>

Next == (\E l \in SourceLines : ReadLine(l)) \/ EndOfFile
Spec == Init /\ [][Next]_vars

------------------------------------------------------------------------------
(* The file as nested groups, without a stack.  Lines are their numbers.   *)
Lines == DOMAIN file
Count(S, P(_)) == Cardinality({i \in S : P(i)})
Commented(i) == LET Opens(j)  == file[j].comment = "open"
                    Closes(j) == file[j].comment = "close"
                IN Count(1..i - 1, Opens) > Count(1..i, Closes)
Op(i) == IF Commented(i) THEN "blank" ELSE file[i].op
InBody(i) == \E d \in 1..i - 1 : Op(d) = "define" /\ \A j \in d..i - 1 : file[j].more
Opener(i) == Op(i) = "if"
Closer(i) == Op(i) = "endif"
Depth(i) == Count(1..i - 1, Opener) - Count(1..i - 1, Closer)

(* The #if lines of the groups line i is in, and the branches of group o   *)
(* in front of line i.                                                     *)
Groups(i) == {o \in 1..i - 1 : Opener(o) /\ \A j \in (o + 1)..i : Depth(j) > Depth(o)}
Branches(o, i) ==
  {o} \cup {b \in (o + 1)..(i - 1) : /\ Op(b) \in {"elif", "else"}
                                     /\ Depth(b) = Depth(o) + 1 /\ o \in Groups(b)}

(* A line counts if in each of its groups the branch it is in is the first *)
(* whose condition holds, with the definitions in front of that branch.    *)
Selected ==
  LET sel[i \in Lines] ==
        LET Holds(b) ==
              \/ Op(b) = "else"
              \/ (file[b].name \in {file[d].name : d \in {e \in 1..b - 1 :
                                      Op(e) = "define" /\ sel[e]}}) # file[b].neg
        IN \A o \in Groups(i) :
             LET last == Max(Branches(o, i))
             IN Holds(last) /\ \A b \in Branches(o, i) \ {last} : ~Holds(b)
  IN {i \in Lines : sel[i]}

(* Branches and ends belong to a group, a group ends, and #else is last.   *)
WellNested ==
  /\ \A i \in Lines :
       /\ Op(i) \in {"elif", "else", "endif"} => Groups(i) # {}
       /\ Op(i) \in {"elif", "else"} =>
            \A b \in Branches(Max(Groups(i)), i) : Op(b) # "else"
  /\ Count(Lines, Opener) = Count(Lines, Closer)

(* A file is rejected when its conditionals are not well nested, and only  *)
(* then; otherwise the lines that remain are those of the branches taken,  *)
(* in order, and the macros are those defined there.                       *)
SelectionAgrees ==
  /\ phase = "error" => ~WellNested
  /\ phase = "done" =>
       LET sel == Selected
           IsText(i) == i \in sel /\ Op(i) = "text" /\ ~InBody(i)
           texts == SetToSortSeq({i \in Lines : IsText(i)}, LAMBDA i, j : i < j)
       IN /\ WellNested
          /\ lines = [i \in DOMAIN texts |-> file[texts[i]].text]
          /\ DOMAIN macros = {file[d].name : d \in {e \in sel : Op(e) = "define"}}

(* The body of the macro line d defines, its own lines in it. *)
RECURSIVE BodyFrom(_, _)
BodyFrom(i, text) ==
  IF file[i].more /\ i + 1 \in Lines /\ Op(i + 1) = "text"
  THEN BodyFrom(i + 1, text \o <<NewLine>> \o file[i + 1].text) ELSE text
TableAt(i, sel) ==
  LET defs == {d \in 1..i - 1 : d \in sel /\ Op(d) = "define"}
      At(n) == CHOOSE d \in defs : file[d].name = n
  IN [n \in {file[d].name : d \in defs} |->
        [fn |-> file[At(n)].fn, params |-> file[At(n)].params,
         body |-> BodyFrom(At(n), file[At(n)].text)]]

(* The statements Parse reads are those the assembler reads, which expands *)
(* a macro where it stands, with the definitions in front of it: for files *)
(* that do not name a macro in front of its definition.                    *)
ExpansionAgrees ==
  phase = "done" =>
    LET sel   == Selected
        texts == SetToSortSeq({i \in sel : Op(i) = "text" /\ ~InBody(i)},
                              LAMBDA i, j : i < j)
        read  == [k \in DOMAIN texts |->
                    Lex(file[texts[k]].text, TableAt(texts[k], sel))]
    IN (\A k \in DOMAIN texts :
          IdsIn(read[k]) \cap {file[d].name : d \in {e \in sel : /\ e > texts[k]
                                                  /\ Op(e) = "define"}} = {})
         => Statements(output) = Statements(read)
==============================================================================
