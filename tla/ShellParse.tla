----------------------------- MODULE ShellParse -----------------------------
(***************************************************************************)
(* The shell's tokenizer (shell/token.c) and parser (shell/com_parser.c)   *)
(* as functions, for TLC to evaluate on every short input.  A line is a    *)
(* sequence of characters; behind its end are the zero bytes of the buffer *)
(* mysh reads it into.  The storage of the strings is left out.            *)
(***************************************************************************)
EXTENDS Integers, Sequences, SequencesExt

CONSTANTS
    Chars,          (* characters of the lines that are tokenized *)
    MaxChars,       (* their length *)
    Tokens,         (* tokens of the chains that are parsed *)
    MaxTokens       (* their number *)

NUL == "nul"
Quote == "q"        (* the double quote *)
Space == " "
Digits == {"1", "2"}

VARIABLES text, argv        (* the inputs *)
vars == <<text, argv>>

-----------------------------------------------------------------------------
(* shell/token.c; positions count from 0 as in the source *)

At(line, i) == IF i < Len(line) THEN line[i + 1] ELSE NUL

(* The WORD_SIZE - 1 characters at WORD_START that the line has. *)
copy_comm(line, word_start, word_size) ==
    SubSeq(line, word_start + 1, Min({word_start + word_size - 1, Len(line)}))

is_number(line, start, end) == end # start /\ \A k \in start .. end - 1 : At(line, k) \in Digits

(* The first position of CH at or after FROM; -1 if there is none (the     *)
(* source then subtracts from a null pointer and tests the difference).    *)
strchr(line, from, ch) ==
    LET S == {k \in from .. Len(line) - 1 : At(line, k) = ch}
    IN  IF S = {} THEN -1 ELSE Min(S)

(* The size of the redirection at I, with its terminator: an optional      *)
(* number in front of it, ">" or ">>", an optional "&" with a number.  -1  *)
(* if no blank ends that number: the shell exits.                          *)
Redirect(line, word_start, i) ==
    LET size == i - word_start + 2 + (IF At(line, i + 1) = ">" THEN 1 ELSE 0)
        fd_start == word_start + size
        fd_end == strchr(line, fd_start, Space)
        dup == At(line, word_start + size - 1) = "&"
    IN  IF dup /\ fd_end = -1 THEN -1
        ELSE IF dup /\ is_number(line, fd_start, fd_end) THEN size + fd_end - fd_start + 1
        ELSE size

Failed(toks) == [toks |-> toks, ok |-> FALSE]

(* TOKS with the word that ends before I, if there is one. *)
Finish(toks, line, word_start, i) ==
    IF word_start = i THEN toks ELSE Append(toks, copy_comm(line, word_start, i - word_start + 1))

RECURSIVE Scan(_, _, _, _)
Scan(line, i, word_start, toks) ==
    LET ch == At(line, i)
    IN  CASE ch = Quote ->
               LET close == strchr(line, i + 1, Quote)
               IN  IF close = -1 THEN Failed(toks)
                   ELSE Scan(line, close + 1, close + 1,
                             Append(toks, copy_comm(line, word_start, close + 1 - word_start + 1)))
          [] ch = Space -> Scan(line, i + 1, i + 1, Finish(toks, line, word_start, i))
          [] ch \in {"|", "<"} -> Scan(line, i + 1, i + 1, Append(Finish(toks, line, word_start, i), <<ch>>))
          [] ch = ">" ->
               LET keep == is_number(line, word_start, i)
                   from == IF keep THEN word_start ELSE i
                   size == Redirect(line, from, i)
                   before == IF keep THEN toks ELSE Finish(toks, line, word_start, i)
               IN  IF size = -1 THEN Failed(toks)
                   ELSE Scan(line, i + size - 1, i + size - 1, Append(before, copy_comm(line, from, size)))
          [] ch = NUL -> [toks |-> Finish(toks, line, word_start, i), ok |-> TRUE]
          [] OTHER -> Scan(line, i + 1, word_start, toks)

tokenize(line) == Scan(line, 0, 0, <<>>)

-----------------------------------------------------------------------------
(* shell/com_parser.c; a token is a word, a quoted word or an operator     *)

Redirections == {"<", ">", ">>", "2>", "2>>"}
NONE == "none"                              (* a file name that is null *)
Unquoted(token) == IF token = "'a'" THEN "a" ELSE token

(* The pipe symbols; the first token is never taken for one. *)
Pipes(a) == {k \in 2 .. Len(a) : a[k] = "|"}
Nth(S, n) == CHOOSE k \in S : Cardinality({j \in S : j <= k}) = n

(* Faulty variant for the mutation checks. *)
SplitKeepsPipe(a, n) ==
    SubSeq(a, IF n = 0 THEN 1 ELSE Nth(Pipes(a), n),
              IF n = Cardinality(Pipes(a)) THEN Len(a) ELSE Nth(Pipes(a), n + 1) - 1)

(* The tokens between the N-th pipe symbol and the next. *)
split_by_pipe_symbol(a, n) ==
    SubSeq(a, IF n = 0 THEN 1 ELSE Nth(Pipes(a), n) + 1,
              IF n = Cardinality(Pipes(a)) THEN Len(a) ELSE Nth(Pipes(a), n + 1) - 1)

(* The file name behind the last of the redirections OPS. *)
Name(t, ops) ==
    LET S == {k \in DOMAIN t : t[k] \in ops}
    IN  IF S = {} THEN NONE ELSE t[Max(S) + 1]

set_fn(t) ==
    [input_fn |-> Name(t, {"<"}), output_fn |-> Name(t, {">", ">>"}), error_fn |-> Name(t, {"2>", "2>>"}),
     out_a |-> \E k \in DOMAIN t : t[k] = ">>", err_a |-> \E k \in DOMAIN t : t[k] = "2>>"]

(* The words up to the first redirection, without their quotes. *)
parse_argv(t) ==
    LET S == {k \in DOMAIN t : t[k] \in Redirections}
        words == IF S = {} THEN t ELSE SubSeq(t, 1, Min(S) - 1)
    IN  [k \in DOMAIN words |-> Unquoted(words[k])]

new_command(t) == [exec_fn |-> t[1], argv |-> parse_argv(t), io |-> set_fn(t)]

(* A command without tokens, or one that ends in a redirection, makes the  *)
(* shell follow a null pointer.                                            *)
Crashes(t) == t = <<>> \/ Last(t) \in Redirections

parse_to_chained_commands(a) ==
    LET chain == [n \in 1 .. Cardinality(Pipes(a)) + 1 |-> split_by_pipe_symbol(a, n - 1)]
    IN  IF \E n \in DOMAIN chain : Crashes(chain[n]) THEN <<>>
        ELSE [n \in DOMAIN chain |-> new_command(chain[n])]

-----------------------------------------------------------------------------
(* An input is typed, character by character or token by token. *)

Init == text = <<>> /\ argv = <<>>

TypeChar(c) == argv = <<>> /\ Len(text) < MaxChars /\ text' = Append(text, c) /\ UNCHANGED argv

TypeToken(w) == text = <<>> /\ Len(argv) < MaxTokens /\ argv' = Append(argv, w) /\ UNCHANGED text

Next ==
    \/ \E c \in Chars : TypeChar(c)
    \/ \E w \in Tokens : TypeToken(w)

Spec == Init /\ [][Next]_vars

-----------------------------------------------------------------------------
(* Properties *)

(* Whether position K of LINE belongs to a quoted string. *)
Quoted(line, k) ==
    line[k] = Quote \/ Cardinality({j \in 1 .. k - 1 : line[j] = Quote}) % 2 = 1

(* The tokenizer loses nothing of the line and repeats nothing: the tokens *)
(* in order are the line without the blanks outside quotes.                *)
Lossless ==
    tokenize(text).ok =>
        FlattenSeq(tokenize(text).toks) =
            LET kept == SelectSeq([k \in DOMAIN text |-> k],
                                  LAMBDA k : text[k] # Space \/ Quoted(text, k))
            IN  [n \in DOMAIN kept |-> text[kept[n]]]

(* Nothing is lost of a line in which no number stands in front of ">"     *)
(* (with one, the tokenizer skips as many characters as the number has).   *)
LosslessUnnumbered ==
    (\A k \in 2 .. Len(text) : text[k] = ">" => text[k - 1] \notin Digits) => Lossless

(* ">" or ">>" with numbers around it. *)
IsRedirection(tok) ==
    \E k \in DOMAIN tok : /\ tok[k] = ">"
                          /\ \A j \in 1 .. k - 1 : tok[j] \in Digits
                          /\ \/ k = Len(tok)
                             \/ tok[k + 1] = ">" /\ (k + 1 = Len(tok) \/ tok[k + 2] = "&")
                             \/ tok[k + 1] = "&"
                          /\ \A j \in k + 1 .. Len(tok) : tok[j] \in Digits \cup {">", "&"}

(* The tokenizer ends a word at an operator: a token that does not end a   *)
(* quoted string is one operator, or a word without operators and blanks.  *)
OperatorsAlone ==
    tokenize(text).ok =>
        \A tok \in Range(tokenize(text).toks) :
            \/ Last(tok) = Quote
            \/ tok \in {<<"|">>, <<"<">>}
            \/ IsRedirection(tok)
            \/ Range(tok) \cap {"|", "<", ">", Space, Quote} = {}

(* The number of the command that position K of A belongs to, and the      *)
(* positions of that command before K.                                     *)
Command(a, k) == 1 + Cardinality({j \in 1 .. k : a[j] = "|"})
Before(a, k) == {j \in 1 .. k - 1 : Command(a, j) = Command(a, k) /\ a[j] # "|"}

(* The operators of one kind: at most one of them per command. *)
Kind(op) == CASE op = "<" -> {"<"} [] op \in {">", ">>"} -> {">", ">>"} [] OTHER -> {"2>", "2>>"}
IsFile(a, k) == k > 1 /\ a[k - 1] \in Redirections
IsWord(a, k) == a[k] \notin Redirections \cup {"|"} /\ ~ IsFile(a, k)

(* What com_parser.h assumes: commands between pipe symbols, each of words *)
(* and then redirections with a file name, one of a kind at most.          *)
Grammatical(a) ==
    /\ a # <<>>
    /\ \A k \in DOMAIN a :
          /\ a[k] = "|" => 1 < k /\ k < Len(a) /\ a[k - 1] # "|"
          /\ a[k] \in Redirections =>
                /\ k < Len(a) /\ a[k + 1] \notin Redirections \cup {"|"}
                /\ \E j \in Before(a, k) : IsWord(a, j)
                /\ \A j \in Before(a, k) : a[j] \notin Kind(a[k])
          /\ IsWord(a, k) => \A j \in Before(a, k) : IsWord(a, j)

(* The parser puts every token of a well-formed line in its place: the     *)
(* words of the n-th command are its arguments in order, a file name is    *)
(* that of its redirection and of its command, and nothing else is there.  *)
ParsedRight ==
    Grammatical(argv) =>
        LET cmds == parse_to_chained_commands(argv)
            Of(n) == {k \in DOMAIN argv : argv[k] # "|" /\ Command(argv, k) = n}
            File(n, ops) == {argv[k + 1] : k \in {j \in Of(n) : argv[j] \in ops}}
            Named(name) == IF name = NONE THEN {} ELSE {name}
        IN  /\ Len(cmds) = Command(argv, Len(argv))
            /\ \A n \in DOMAIN cmds :
                  /\ Len(cmds[n].argv) = Cardinality({k \in Of(n) : IsWord(argv, k)})
                  /\ \A k \in Of(n) : IsWord(argv, k) =>
                        cmds[n].argv[Cardinality(Before(argv, k)) + 1] = Unquoted(argv[k])
                  /\ Named(cmds[n].io.input_fn) = File(n, {"<"})
                  /\ Named(cmds[n].io.output_fn) = File(n, {">", ">>"})
                  /\ Named(cmds[n].io.error_fn) = File(n, {"2>", "2>>"})
                  /\ cmds[n].io.out_a = \E k \in Of(n) : argv[k] = ">>"
                  /\ cmds[n].io.err_a = \E k \in Of(n) : argv[k] = "2>>"

=============================================================================
