------------------------------- MODULE Parser -------------------------------
(***************************************************************************)
(* The parser of the shell (user/sh.c): a recursive descent over the       *)
(* characters of a line, which builds a tree of commands.  A word is the   *)
(* sequence of its characters; nulterminate() is what turns the pointers   *)
(* argv[i] and eargv[i] into such a word.  panic() ends the process that   *)
(* parses, so it is a result of its own.                                   *)
(***************************************************************************)
EXTENDS Naturals, SequencesExt

CONSTANT MAXARGS

whitespace == {" "}
symbols == {"<", "|", ">", "&", ";", "(", ")"}

execcmd(argv) == [type |-> "EXEC", argv |-> argv]
redircmd(cmd, file, fd) == [type |-> "REDIR", cmd |-> cmd, file |-> file, fd |-> fd]
pipecmd(left, right) == [type |-> "PIPE", left |-> left, right |-> right]
listcmd(left, right) == [type |-> "LIST", left |-> left, right |-> right]
backcmd(cmd) == [type |-> "BACK", cmd |-> cmd]

Drop(s, n) == SubSeq(s, n + 1, Len(s))
Skip(s) ==
  LET n == SelectInSeq(s, LAMBDA c : c \notin whitespace)
  IN IF n = 0 THEN <<>> ELSE Drop(s, n - 1)

\* The first token of s ("a" for a word, "" at the end), the word, the rest.
gettoken(s) ==
  LET t == Skip(s)
      n == SelectInSeq(t, LAMBDA c : c \in whitespace \cup symbols)
      len == IF n = 0 THEN Len(t) ELSE n - 1
      token(ret, k) == [tok |-> ret, word |-> SubSeq(t, 1, k), rest |-> Skip(Drop(t, k))]
  IN CASE t = <<>> -> token("", 0)
       [] len > 0 -> token("a", len)
       [] len = 0 /\ IsPrefix(<<">", ">">>, t) -> token("+", 2)
       [] OTHER -> token(t[1], 1)

peek(s, toks) == LET t == Skip(s) IN t # <<>> /\ t[1] \in toks

\* What a parsing function returns: the command and what is left of the line.
Parsed(cmd, rest) == [cmd |-> cmd, rest |-> rest]
panic == Parsed([type |-> "panic"], <<>>)
Panicked(r) == r = panic

\* Variant of redirected: every redirection is of the standard output.
redirectedOut(cmd, tok, file) == redircmd(cmd, file, 1)

\* The redirection that the token stands for; >> is the same as >.
redirected(cmd, tok, file) == redircmd(cmd, file, IF tok = "<" THEN 0 ELSE 1)

RECURSIVE parseredirs(_)
parseredirs(r) ==
  IF Panicked(r) \/ ~peek(r.rest, {"<", ">"}) THEN r
  ELSE LET t == gettoken(r.rest)
           file == gettoken(t.rest)
       IN IF file.tok # "a" THEN panic
          ELSE parseredirs(Parsed(redirected(r.cmd, t.tok, file.word), file.rest))

\* cmd->argv[argc] = q, where cmd is under the redirections parsed so far.
RECURSIVE AddArg(_, _)
AddArg(cmd, q) ==
  IF cmd.type = "EXEC" THEN [cmd EXCEPT !.argv = Append(@, q)]
  ELSE [cmd EXCEPT !.cmd = AddArg(@, q)]

\* The loop of parseexec().
RECURSIVE parseargs(_, _)
parseargs(r, argc) ==
  IF Panicked(r) \/ peek(r.rest, {"|", ")", "&", ";"}) THEN r
  ELSE LET t == gettoken(r.rest) IN
       CASE t.tok = "" -> Parsed(r.cmd, t.rest)
         [] t.tok \notin {"", "a"} -> panic
         [] t.tok = "a" /\ argc + 1 >= MAXARGS -> panic
         [] OTHER -> parseargs(parseredirs(Parsed(AddArg(r.cmd, t.word), t.rest)), argc + 1)

RECURSIVE parseline(_), parsepipe(_)

\* What parseblock() does after the line in the block.
closed(r) ==
  IF Panicked(r) \/ ~peek(r.rest, {")"}) THEN panic
  ELSE parseredirs(Parsed(r.cmd, gettoken(r.rest).rest))

parseblock(s) == closed(parseline(gettoken(s).rest))

parseexec(s) ==
  IF peek(s, {"("}) THEN parseblock(s)
  ELSE parseargs(parseredirs(Parsed(execcmd(<<>>), s)), 0)

\* The command l, and r that was parsed behind the token that follows it.
piped(l, r) == IF Panicked(r) THEN r ELSE Parsed(pipecmd(l.cmd, r.cmd), r.rest)
listed(l, r) == IF Panicked(r) THEN r ELSE Parsed(listcmd(l.cmd, r.cmd), r.rest)

alone(l, tok) == Panicked(l) \/ ~peek(l.rest, {tok})

\* The rest of the pipeline behind its first command l.
pipedrest(l) == IF alone(l, "|") THEN l ELSE piped(l, parsepipe(gettoken(l.rest).rest))
parsepipe(s) == pipedrest(parseexec(s))

\* The loop of parseline().
RECURSIVE parsebacks(_)
parsebacks(r) ==
  IF Panicked(r) \/ ~peek(r.rest, {"&"}) THEN r
  ELSE parsebacks(Parsed(backcmd(r.cmd), gettoken(r.rest).rest))

\* The rest of the line behind its first pipeline l.
listedrest(l) == IF alone(l, ";") THEN l ELSE listed(l, parseline(gettoken(l.rest).rest))
parseline(s) == listedrest(parsebacks(parsepipe(s)))

complete(r) == IF Skip(r.rest) # <<>> THEN panic.cmd ELSE r.cmd
parsecmd(s) == complete(parseline(s))

-----------------------------------------------------------------------------
(* A reference: the grammar, as the set of trees of a sequence of tokens.   *)

redirs == {"<", ">", ">>"}
Tokens == {"a", "|", "&", ";", "(", ")"} \cup redirs
Word == <<"a">>

Redirect(cmd, t) ==
  FoldLeft(LAMBDA c, r : redircmd(c, Word, IF r = "<" THEN 0 ELSE 1), cmd,
           SelectSeq(t, LAMBDA x : x \in redirs))

\* Words and redirections in any order, a file after each redirection.
Args(t) == {i \in DOMAIN t : t[i] = "a" /\ (i > 1 => t[i - 1] \notin redirs)}
IsSimple(t) ==
  /\ \A i \in DOMAIN t : t[i] \in redirs \cup {"a"}
  /\ \A i \in DOMAIN t : t[i] \in redirs => i < Len(t) /\ t[i + 1] = "a"

RECURSIVE Line(_), Pipeline(_), Backs(_)

Exec(t) ==
  (IF IsSimple(t) /\ Cardinality(Args(t)) < MAXARGS
     THEN {Redirect(execcmd([i \in 1..Cardinality(Args(t)) |-> Word]), t)} ELSE {})
  \cup UNION {{Redirect(c, Drop(t, k)) : c \in Line(SubSeq(t, 2, k - 1))} :
                k \in {j \in DOMAIN t : /\ t[1] = "(" /\ t[j] = ")"
                                        /\ IsSimple(Drop(t, j)) /\ Args(Drop(t, j)) = {}}}

\* The commands of l on the left of a token tok and of r on the right of it.
Split(t, tok, l(_), r(_), node(_, _)) ==
  UNION {{node(x, y) : x \in l(SubSeq(t, 1, k - 1)), y \in r(Drop(t, k))} :
           k \in {j \in DOMAIN t : t[j] = tok}}

Pipeline(t) == Exec(t) \cup Split(t, "|", Exec, Pipeline, pipecmd)

Backs(t) ==
  Pipeline(t) \cup
    IF t # <<>> /\ Last(t) = "&" THEN {backcmd(c) : c \in Backs(Front(t))} ELSE {}

Line(t) == Backs(t) \cup Split(t, ";", Backs, Line, listcmd)

\* The tokens as characters, with a space everywhere or only where it is needed.
Text(t, spaced) ==
  FoldLeft(LAMBDA s, x :
             s \o (IF spaced \/ (s # <<>> /\ Last(s) = "a" /\ x = "a")
                             \/ (s # <<>> /\ Last(s) = ">" /\ x \in {">", ">>"})
                     THEN <<" ">> ELSE <<>>)
               \o (IF x = ">>" THEN <<">", ">">> ELSE <<x>>),
           <<>>, t)

\* parsecmd() accepts exactly the lines of the grammar and builds the tree that
\* the grammar gives them: | binds tighter than &, & tighter than ;, a
\* redirection belongs to the command or block before it, and anything else is
\* a syntax error, wherever the spaces are.
Grammatical(n) ==
  \A t \in BoundedSeq(Tokens, n), spaced \in BOOLEAN :
    LET trees == Line(t) IN
    /\ Cardinality(trees) <= 1
    /\ parsecmd(Text(t, spaced)) =
         IF trees = {} THEN panic.cmd ELSE CHOOSE c \in trees : TRUE
=============================================================================
