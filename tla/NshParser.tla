------------------------------ MODULE NshParser ------------------------------
(***************************************************************************)
(* How nsh reads a line: src/shell/src/parser.rs.  tokenise is a fold over *)
(* the characters with a mode for each construct that takes characters its *)
(* own way; parse is a fold over the tokens.  Characters are strings of    *)
(* one letter, words are sequences of them.                                *)
(***************************************************************************)
EXTENDS Integers, FiniteSets, SequencesExt

CONSTANTS
    Env,         \* environment variables: name (a sequence of characters) |-> value
    Letters      \* characters that are alphanumeric here; others stand for themselves

-----------------------------------------------------------------------------
(* Tokens and redirections. *)

Word(w)      == [kind |-> "word", op |-> "", text |-> w]
Redir(op, f) == [kind |-> "redir", op |-> op, text |-> f]
Sep(k)       == [kind |-> k, op |-> "", text |-> <<>>]

(* tokenise's state: tokens so far, the word being built, the mode, the    *)
(* variable name or file name being read, and the redirection it is for.   *)
Fresh == [toks |-> <<>>, word |-> <<>>, mode |-> "plain", name |-> <<>>, op |-> ""]

Flush(s) == IF s.word = <<>> THEN s
            ELSE [s EXCEPT !.toks = Append(@, Word(s.word)), !.word = <<>>]
Emit(s, t)    == LET f == Flush(s) IN [f EXCEPT !.toks = Append(@, t)]
Enter(s, m)   == [s EXCEPT !.mode = m, !.name = <<>>]
Push(s, ch)   == [s EXCEPT !.word = Append(@, ch)]

(* The value of the variable just named: in double quotes one that is not  *)
(* set is empty, outside it stays as it was written.                       *)
Expand(s, back) ==
    LET v == IF s.name \in DOMAIN Env THEN Env[s.name]
             ELSE IF back = "dquote" THEN <<>> ELSE <<"$">> \o s.name
    IN  [Enter(s, back) EXCEPT !.word = @ \o v]
EndRedir(s) ==
    [Enter(s, "plain") EXCEPT !.toks = Append(@, Redir(s.op, s.name))]

(* One character outside every quote. *)
Plain(s, ch) ==
    CASE ch = " "                -> Flush(s)
      [] ch \in {"|", ";", "&", "\n"} -> Emit(s, Sep(ch))
      [] ch = "'"                -> Enter(s, "squote")
      [] ch = "\""               -> Enter(s, "dquote")
      [] ch = ">"                -> [Enter(Flush(s), "gt") EXCEPT !.op = ">"]
      [] ch = "<"                -> [Enter(Flush(s), "skip") EXCEPT !.op = "<"]
      [] ch = "#"                -> Enter(Flush(s), "comment")
      [] ch = "$"                -> Enter(s, "var")
      [] ch = "\\"               -> Enter(s, "escape")
      [] OTHER                   -> Push(s, ch)

(* read_word: a file name runs to a space or a separator. *)
FileChar(s, ch) ==
    IF ch \in {" ", "\n", ";", "|", "&"} THEN Plain(EndRedir(s), ch)
    ELSE [s EXCEPT !.mode = "file", !.name = Append(@, ch)]

(* read_var_name, for either of its callers (`back`). *)
VarChar(s, ch, back) ==
    CASE s.mode \in {"bvar", "dbvar"} ->
            IF ch = "}" THEN Expand(s, back) ELSE [s EXCEPT !.name = Append(@, ch)]
      [] ch = "{" /\ s.name = <<>> /\ s.mode \in {"var", "dvar"} ->
            Enter(s, IF back = "dquote" THEN "dbvar" ELSE "bvar")
      [] ch \in Letters \cup {"_"} -> [s EXCEPT !.name = Append(@, ch)]
      [] OTHER -> s

Step(s, ch) ==
    CASE s.mode = "plain"   -> Plain(s, ch)
      [] s.mode = "squote"  -> IF ch = "'" THEN Enter(s, "plain") ELSE Push(s, ch)
      [] s.mode = "escape"  -> IF ch = "\n" THEN Enter(s, "plain")
                               ELSE Push(Enter(s, "plain"), ch)
      [] s.mode = "comment" -> IF ch = "\n" THEN Enter(s, "plain") ELSE s
      [] s.mode = "gt"      -> IF ch = ">" THEN [s EXCEPT !.mode = "skip", !.op = ">>"]
                               ELSE IF ch = " " THEN [s EXCEPT !.mode = "skip"]
                               ELSE FileChar(s, ch)
      [] s.mode = "skip"    -> IF ch = " " THEN s ELSE FileChar(s, ch)
      [] s.mode = "file"    -> FileChar(s, ch)
      [] s.mode = "dquote"  -> IF ch = "\"" THEN Enter(s, "plain")
                               ELSE IF ch = "$" THEN Enter(s, "dvar") ELSE Push(s, ch)
      [] s.mode = "var"     -> IF VarChar(s, ch, "plain") # s
                               THEN VarChar(s, ch, "plain")
                               ELSE Plain(Expand(s, "plain"), ch)
      [] s.mode = "bvar"    -> VarChar(s, ch, "plain")
      [] s.mode = "dbvar"   -> VarChar(s, ch, "dquote")
      [] s.mode = "dvar"    ->
            IF VarChar(s, ch, "dquote") # s THEN VarChar(s, ch, "dquote")
            ELSE LET e == Expand(s, "dquote")
                 IN  IF ch = "\"" THEN Enter(e, "plain")
                     ELSE IF ch = "$" THEN Enter(e, "dvar") ELSE Push(e, ch)

(* The end of the input ends what is open, without complaint. *)
Close(s) ==
    Flush(CASE s.mode \in {"gt", "skip", "file"} -> EndRedir(s)
            [] s.mode \in {"var", "bvar"}        -> Expand(s, "plain")
            [] s.mode \in {"dvar", "dbvar"}      -> Expand(s, "dquote")
            [] OTHER                             -> s)

Tokenise(line) == Close(FoldLeft(Step, Fresh, line)).toks

-----------------------------------------------------------------------------
(* parse: a script is a sequence of pipelines, a pipeline of commands. *)

Inherit == [op |-> "inherit", text |-> <<>>]
Pipe    == [op |-> "pipe", text |-> <<>>]
Target(t) == [op |-> t.op, text |-> t.text]

Reading == [pipelines |-> <<>>, stages |-> <<>>, argv |-> <<>>,
            stdin |-> Inherit, stdout |-> Inherit, bg |-> FALSE]

(* Mutant of PushCmd: the redirection of a command stays for the next one. *)
PushCmd_Keeps(s) ==
    IF s.argv = <<>> THEN s
    ELSE [s EXCEPT !.argv = <<>>, !.bg = FALSE, !.stdin = Inherit,
                   !.stages = Append(@, [argv |-> s.argv, stdin |-> s.stdin,
                                         stdout |-> s.stdout, bg |-> s.bg])]

(* push_cmd!: a command without a word is no command, and then what was    *)
(* said of its input, output and background stays for the next one.        *)
PushCmd(s) ==
    IF s.argv = <<>> THEN s
    ELSE [Reading EXCEPT
            !.pipelines = s.pipelines,
            !.stages = Append(s.stages,
                [argv |-> s.argv, stdin |-> s.stdin, stdout |-> s.stdout, bg |-> s.bg])]

PushPipeline(s) ==
    LET c == PushCmd(s)
    IN  IF c.stages = <<>> THEN c
        ELSE [c EXCEPT !.pipelines = Append(@, c.stages), !.stages = <<>>]

Read(s, t) ==
    CASE t.kind = "word"  -> [s EXCEPT !.argv = Append(@, t.text)]
      [] t.kind = "|"     ->
            LET c == PushCmd(s)
                n == Len(c.stages)
            IN  [c EXCEPT !.stages = IF n = 0 THEN @ ELSE [@ EXCEPT ![n].stdout = Pipe],
                          !.stdin = Pipe]
      [] t.kind \in {";", "\n"} -> PushPipeline(s)
      [] t.kind = "&"     -> PushPipeline([s EXCEPT !.bg = TRUE])
      [] t.kind = "redir" -> IF t.op = "<" THEN [s EXCEPT !.stdin = Target(t)]
                             ELSE [s EXCEPT !.stdout = Target(t)]

(* <<>> stands for ParseError::Empty. *)
ParseTokens(toks) == PushPipeline(FoldLeft(Read, Reading, toks)).pipelines
Parse(line) == ParseTokens(Tokenise(line))

-----------------------------------------------------------------------------
(* What a script means, said of whole token sequences: pieces between      *)
(* separators instead of a fold.                                           *)

Pieces(toks, seps) ==
    LET cuts == {i \in 1..Len(toks) : toks[i].kind \in seps} \cup {0, Len(toks) + 1}
    IN  {p \in cuts \X cuts : p[1] < p[2] /\ \A c \in cuts : c <= p[1] \/ p[2] <= c}
Between(toks, p)   == SubSeq(toks, p[1] + 1, p[2] - 1)
OfKind(toks, k)    == SelectSeq(toks, LAMBDA t : t.kind = k)
Ends(toks, i)      == IF i \in 1..Len(toks) THEN toks[i].kind ELSE ""
InOrder(pieces)    == SortSeq(SetToSeq(pieces), LAMBDA p, q : p[1] < q[1])
LastOr(s, default) == IF s = <<>> THEN default ELSE Target(Last(s))

Separators == {"|", ";", "&", "\n"}
HasWord(toks, p) == OfKind(Between(toks, p), "word") # <<>>

Meant(toks, p) ==
    LET inner == Between(toks, p)
        outs  == SelectSeq(inner, LAMBDA t : t.kind = "redir" /\ t.op # "<")
        ins   == SelectSeq(inner, LAMBDA t : t.kind = "redir" /\ t.op = "<")
        words == OfKind(inner, "word")
    IN  [argv   |-> [i \in 1..Len(words) |-> words[i].text],
         stdin  |-> LastOr(ins, IF Ends(toks, p[1]) = "|" THEN Pipe ELSE Inherit),
         stdout |-> IF Ends(toks, p[2]) = "|" THEN Pipe ELSE LastOr(outs, Inherit),
         bg     |-> Ends(toks, p[2]) = "&"]

(* Every command that says or joins something has a word. *)
WellFormed(toks) ==
    \A p \in Pieces(toks, Separators) :
        \/ HasWord(toks, p)
        \/ /\ Between(toks, p) = <<>>
           /\ "|" \notin {Ends(toks, p[1]), Ends(toks, p[2])}
           /\ Ends(toks, p[2]) # "&"

MeantScript(toks) ==
    LET lines == {p \in Pieces(toks, Separators \ {"|"}) : HasWord(toks, p)}
        Of(p) == {q \in Pieces(toks, Separators) : p[1] <= q[1] /\ q[2] <= p[2]}
        Cmds(p) == LET qs == InOrder(Of(p)) IN [i \in 1..Len(qs) |-> Meant(toks, qs[i])]
        ps == InOrder(lines)
    IN  [i \in 1..Len(ps) |-> Cmds(ps[i])]

(* A well-formed line parses to what it means: commands, their words and   *)
(* their order, who is piped to whom, redirections, background.            *)
ScriptAgrees(toks) == WellFormed(toks) => ParseTokens(toks) = MeantScript(toks)

(* Three ways to quote a text give one word, the text itself. *)
QuotingAgrees(line) ==
    LET one == IF line = <<>> THEN <<>> ELSE <<Word(line)>>
        escaped == [i \in 1..2 * Len(line) |-> IF i % 2 = 1 THEN "\\" ELSE line[i \div 2]]
    IN  /\ "'" \notin Range(line) => Tokenise(<<"'">> \o line \o <<"'">>) = one
        /\ Range(line) \cap {"\"", "$"} = {} =>
               Tokenise(<<"\"">> \o line \o <<"\"">>) = one
        /\ "\n" \notin Range(line) => Tokenise(escaped) = one
=============================================================================
