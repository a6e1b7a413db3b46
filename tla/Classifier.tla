----------------------------- MODULE Classifier -----------------------------
(* The shell-command classifier the approval hook asks first               *)
(* (src/bot/classifier.py): a command is cut into segments at the shell's  *)
(* operators, looked at as a whole for constructs nobody can read, and     *)
(* then judged one segment at a time; the worst segment decides.           *)
(*                                                                         *)
(* A command is a sequence of atoms: whole words as they are spelled,      *)
(* white space, quotes, the backslash and the operators. The tables of the *)
(* module (DENY_RULES with _match_deny, ALLOW_COMMANDS with                *)
(* _check_segment_allow, the opaque patterns) are constants: what is       *)
(* modelled is what the code does with them.                               *)
EXTENDS Integers, Sequences, FiniteSets, SequencesExt, FiniteSetsExt

CONSTANTS
  Words,          \* the words of commands
  Ungrouped,      \* a word without the parentheses it starts with, or itself
  BaseName,       \* its base name in lower case, "" for a path to nothing
  Glue(_),        \* the word that several atoms of a token make together
  Groups,         \* words of parentheses and braces only
  Commands,       \* the command strings given to classify
  Assignments,    \* words of the form VAR=value
  Wrappers,       \* env, sudo, doas
  WrapperFlags,   \* words that start with a dash
  SplitFlags,     \* those by which env reads a string as a command
  ArgFlags,       \* ArgFlags[w]: those of w's that take the next token as argument
  Shells,         \* _PIPE_TO_SHELL_CMD
  IsOpaque(_),    \* whether _BYPASS_FULL_RE finds a pattern in a command
  DenyRules,      \* DENY_RULES: a sequence of [cmds, with, without, hard]
  AllowRules,     \* ALLOW_COMMANDS: a set of [cmd, with, without, most]
  UnknownPolicy   \* UNKNOWN_POLICY

Blank      == {"sp", "nl"}
Separators == {"nl", ";", "&", "|"}
Atoms      == Words \cup Blank \cup Separators \cup {"\\", "'", "\""}
Verdicts   == {"allow", "ask", "deny"}

(* A deny rule names its commands ({}: any) and the arguments that must    *)
(* and that must not be there. The hard rules come first in DENY_RULES,    *)
(* and each is for commands of its own, crontab not among them. An allow   *)
(* rule also bounds the number of arguments.                               *)
ASSUME TablesAssumption ==
  /\ \A c \in Commands : c \in Seq(Atoms)
  /\ Len(DenyRules) \in Nat
  /\ \A i \in 1..Len(DenyRules) :
       /\ DenyRules[i] \in [cmds : SUBSET Words, with : SUBSET Words,
                            without : SUBSET Words, hard : BOOLEAN]
       /\ \A j \in 1..i : DenyRules[i].hard => DenyRules[j].hard
       /\ DenyRules[i].hard => DenyRules[i].cmds # {} /\ "crontab" \notin DenyRules[i].cmds
  /\ \A r \in AllowRules :
       r \in [cmd : Words, with : SUBSET Words, without : SUBSET Words, most : Nat]
  /\ ArgFlags \in [Wrappers -> SUBSET WrapperFlags]
  /\ Ungrouped \in [Words -> Words] /\ BaseName \in [Words -> Words \cup {""}]
  /\ UnknownPolicy \in Verdicts

-----------------------------------------------------------------------------
(* Helpers on strings of atoms.                                            *)

(* str.strip: the blanks at both ends go.                                  *)
Strip(s) ==
  LET kept == {k \in 1..Len(s) : s[k] \notin Blank}
  IN  IF kept = {} THEN << >> ELSE SubSeq(s, Min(kept), Max(kept))

(* shlex.split, one atom at a time. t.in is where the scan is: between     *)
(* tokens, in a bare part, in a quoted part, or after a backslash in one   *)
(* of these (in double quotes it is only dropped before \ and ").          *)
ShlexStep(t, a) ==
  LET grow(b, m) == [t EXCEPT !.token = Append(@, b), !.in = m, !.open = TRUE]
      move(m)    == [t EXCEPT !.in = m, !.open = TRUE]
  IN  CASE t.in = "escape"      -> grow(a, "bare")
        [] t.in = "dquote escape" ->
             IF a \in {"\\", "\""} THEN grow(a, "double")
             ELSE [t EXCEPT !.token = @ \o <<"\\", a>>, !.in = "double"]
        [] t.in = "single"      -> IF a = "'" THEN move("bare") ELSE grow(a, "single")
        [] t.in = "double"      -> IF a = "\"" THEN move("bare")
                                   ELSE IF a = "\\" THEN move("dquote escape")
                                   ELSE grow(a, "double")
        [] t.in = "bare" /\ a \in Blank ->
             [t EXCEPT !.tokens = IF t.open THEN Append(@, t.token) ELSE @,
                       !.token = << >>, !.open = FALSE]
        [] t.in = "bare" /\ a \notin Blank ->
             IF a = "\\" THEN move("escape")
             ELSE IF a = "'" THEN move("single")
             ELSE IF a = "\"" THEN move("double") ELSE grow(a, "bare")

Shlex(s) ==
  LET upTo[k \in 0..Len(s)] ==
        IF k = 0
        THEN [tokens |-> << >>, token |-> << >>, open |-> FALSE, in |-> "bare"]
        ELSE ShlexStep(upTo[k - 1], s[k])
  IN  upTo[Len(s)]

(* What a token reads as.                                                  *)
WordOf(token) ==
  IF token = << >> THEN "" ELSE IF Len(token) = 1 THEN token[1] ELSE Glue(token)

(* _tokenize: the words of a segment, and whether shlex could read it.     *)
Tokenizes(seg) == Shlex(seg).in = "bare"
Tokenize(seg) ==
  LET end == Shlex(seg)
      all == IF end.open THEN Append(end.tokens, end.token) ELSE end.tokens
  IN  [k \in 1..Len(all) |-> WordOf(all[k])]

(* _resolve_command: the index of the command word, 0 if there is none.    *)
(* Assignments, wrappers and a wrapper's flags are skipped; env also skips *)
(* the assignments among its flags, and has no command if one of its flags *)
(* splits a string. Words are compared as they are spelled, apart from     *)
(* leading parentheses: /usr/bin/env is no wrapper.                        *)
Ungroup(tok) == IF tok \in Words THEN Ungrouped[tok] ELSE tok

CommandAt(tokens) ==
  LET n == Len(tokens)
      skips(w, tok) == tok \in WrapperFlags \/ (w = "env" /\ tok \in Assignments)
      past[w \in Wrappers, k \in 1..n + 2] ==
        IF k > n \/ ~skips(w, tokens[k]) THEN k
        ELSE IF w = "env" /\ tokens[k] \in SplitFlags THEN n + 1
        ELSE past[w, IF tokens[k] \in ArgFlags[w] THEN k + 2 ELSE k + 1]
      from[k \in 1..n + 2] ==
        IF k > n THEN 0
        ELSE LET tok == Ungroup(tokens[k])
             IN  IF tok \in Assignments THEN from[k + 1]
                 ELSE IF tok \in Wrappers THEN from[past[tok, k + 1]]
                 ELSE k
  IN  from[1]

(* The base name of the command word. A token that is no word, like a      *)
(* quoted operator, stands for itself: no table names it.                  *)
Name(tokens) ==
  IF CommandAt(tokens) = 0 THEN ""
  ELSE LET tok == Ungroup(tokens[CommandAt(tokens)])
       IN  IF tok \in Words THEN BaseName[tok] ELSE tok
Args(tokens) ==
  IF CommandAt(tokens) = 0 THEN << >>
  ELSE SubSeq(tokens, CommandAt(tokens) + 1, Len(tokens))
Has(words, w) == \E k \in 1..Len(words) : words[k] = w
HasAll(words, W) == \A w \in W : Has(words, w)
HasNone(words, W) == \A w \in W : ~Has(words, w)

-----------------------------------------------------------------------------
(* The rules.                                                              *)

(* _match_deny: a rule for any command (write_system_path) looks at all    *)
(* the tokens, the others at the arguments of their commands.              *)
Matches(rule, tokens) ==
  LET seen == IF rule.cmds = {} THEN tokens ELSE Args(tokens)
  IN  /\ rule.cmds = {} \/ Name(tokens) \in rule.cmds
      /\ HasAll(seen, rule.with)
      /\ HasNone(seen, rule.without)

(* _check_crontab_install: whether no segment before the i-th lists.       *)
Unlisted(segs, i) ==
  ~ \E j \in 1..i - 1 : /\ Tokenizes(segs[j])
                        /\ Name(Tokenize(segs[j])) = "crontab"
                        /\ Has(Args(Tokenize(segs[j])), "-l")

\* Mutation: the last matching rule decides.
DenyVerdict_LastRule(segs, i) ==
  LET tokens  == Tokenize(segs[i])
      matched == {k \in 1..Len(DenyRules) : Matches(DenyRules[k], tokens)}
  IN  IF Name(tokens) = "crontab" /\ Args(tokens) = <<"-">> /\ Unlisted(segs, i)
      THEN "ask"
      ELSE IF matched = {} THEN "none"
      ELSE IF DenyRules[Max(matched)].hard THEN "deny" ELSE "ask"

\* Mutation: crontab - is not looked at in its pipeline.
DenyVerdict_NoPipeline(segs, i) ==
  LET tokens  == Tokenize(segs[i])
      matched == {k \in 1..Len(DenyRules) : Matches(DenyRules[k], tokens)}
  IN  IF matched = {} THEN "none"
      ELSE IF DenyRules[Min(matched)].hard THEN "deny" ELSE "ask"

(* _check_segment_deny: the first rule that matches, an unlisted           *)
(* "crontab -" before all of them.                                         *)
DenyVerdict(segs, i) ==
  LET tokens  == Tokenize(segs[i])
      matched == {k \in 1..Len(DenyRules) : Matches(DenyRules[k], tokens)}
  IN  IF Name(tokens) = "crontab" /\ Args(tokens) = <<"-">> /\ Unlisted(segs, i)
      THEN "ask"
      ELSE IF matched = {} THEN "none"
      ELSE IF DenyRules[Min(matched)].hard THEN "deny" ELSE "ask"

(* _check_segment_allow.                                                   *)
Allowed(tokens) ==
  \E r \in AllowRules : /\ r.cmd = Name(tokens)
                        /\ Len(Args(tokens)) <= r.most
                        /\ HasAll(Args(tokens), r.with)
                        /\ HasNone(Args(tokens), r.without)

(* Assignments, grouping, or the empty word that two quotes make.          *)
NoOp(tokens) ==
  \A k \in 1..Len(tokens) : tokens[k] \in Assignments \cup Groups \cup {""}

(* The verdict on one segment (the body of the loop of classify).          *)
SegmentVerdict(segs, i) ==
  LET tokens == Tokenize(segs[i])
  IN  IF ~Tokenizes(segs[i]) THEN "ask"
      ELSE IF Name(tokens) = "" THEN IF NoOp(tokens) THEN "allow" ELSE "ask"
      ELSE IF DenyVerdict(segs, i) # "none" THEN DenyVerdict(segs, i)
      ELSE IF Allowed(tokens) THEN "allow"
      ELSE IF \E r \in AllowRules : r.cmd = Name(tokens) THEN "ask"
      ELSE UnknownPolicy

\* Mutation: the last segment decides.
Worse_Last(a, b) == b

(* _VERDICT_ORDER: the fold keeps the more restrictive one.                *)
Worse(a, b) ==
  IF a = "deny" \/ (a = "ask" /\ b # "deny") THEN a ELSE b

(* _detect_bypass: an opaque construct anywhere, or a shell after another  *)
(* segment, with -c or without arguments.                                  *)
FedShell(seg) ==
  LET tokens == Tokenize(seg)
  IN  /\ Tokenizes(seg)
      /\ Name(tokens) \in Shells
      /\ Args(tokens) = << >> \/ Has(Args(tokens), "-c")
Bypasses(raw, segs) ==
  \/ IsOpaque(raw)
  \/ \E i \in 2..Len(segs) : FedShell(segs[i])

-----------------------------------------------------------------------------
VARIABLES
  cmd,       \* the command, stripped
  pc,        \* "split", "detect", "judge", "done"
  at,        \* the atoms of cmd already consumed
  quote,     \* "none", "single", "double"
  current,   \* the segment being collected
  segments,  \* the segments closed so far
  judged,    \* the segments judged so far
  verdict

vars == <<cmd, pc, at, quote, current, segments, judged, verdict>>

TypeOK ==
  /\ cmd \in Seq(Atoms)
  /\ pc \in {"split", "detect", "judge", "done"}
  /\ at \in 0..Len(cmd)
  /\ quote \in {"none", "single", "double"}
  /\ current \in Seq(Atoms)
  /\ segments \in Seq(Seq(Atoms))
  /\ judged \in 0..Len(segments)
  /\ verdict \in Verdicts

(* classify is called; an empty command needs no look.                     *)
Init ==
  /\ \E c \in Commands : cmd = Strip(c)
  /\ pc = IF cmd = << >> THEN "done" ELSE "split"
  /\ at = 0
  /\ quote = "none"
  /\ current = << >>
  /\ segments = << >>
  /\ judged = 0
  /\ verdict = "allow"

(* The segments when the one being collected is closed.                    *)
Closed(segs, cur) ==
  IF Strip(cur) = << >> THEN segs ELSE Append(segs, Strip(cur))

Here == cmd[at + 1]
Reading == pc = "split" /\ at < Len(cmd)

Consume(k) ==
  /\ current' = current \o SubSeq(cmd, at + 1, Min({at + k, Len(cmd)}))
  /\ at' = Min({at + k, Len(cmd)})

\* Mutation: a backslash does not take the next atom with it.
Escape_Alone ==
  /\ Reading /\ Here = "\\" /\ quote # "single"
  /\ Consume(1)
  /\ UNCHANGED <<cmd, pc, quote, segments, judged, verdict>>

(* A backslash outside single quotes takes the next atom with it.          *)
Escape ==
  /\ Reading /\ Here = "\\" /\ quote # "single"
  /\ Consume(2)
  /\ UNCHANGED <<cmd, pc, quote, segments, judged, verdict>>

Turn(mark, mode, other) ==
  /\ Reading /\ Here = mark /\ quote # other
  /\ quote' = IF quote = mode THEN "none" ELSE mode
  /\ Consume(1)
  /\ UNCHANGED <<cmd, pc, segments, judged, verdict>>
SingleQuote == Turn("'", "single", "double")
DoubleQuote == Turn("\"", "double", "single")

(* An operator outside quotes closes the segment; && and || count as one.  *)
Separate ==
  /\ Reading /\ quote = "none" /\ Here \in Separators
  /\ LET twice == /\ Here \in {"&", "|"}
                  /\ at + 1 < Len(cmd) /\ cmd[at + 2] = Here
     IN  at' = IF twice THEN at + 2 ELSE at + 1
  /\ segments' = Closed(segments, current)
  /\ current' = << >>
  /\ UNCHANGED <<cmd, pc, quote, judged, verdict>>

Collect ==
  /\ Reading
  /\ Here = "\\" => quote = "single"
  /\ Here = "'" => quote = "double"
  /\ Here = "\"" => quote = "single"
  /\ Here \in Separators => quote # "none"
  /\ Consume(1)
  /\ UNCHANGED <<cmd, pc, quote, segments, judged, verdict>>

(* The end of the string: an open quote makes the command unreadable, and  *)
(* a command without segments has one empty segment.                       *)
EndOfCommand ==
  /\ pc = "split" /\ at = Len(cmd)
  /\ IF quote # "none"
     THEN /\ pc' = "done"
          /\ verdict' = "ask"
          /\ UNCHANGED segments
     ELSE /\ pc' = "detect"
          /\ segments' = IF Closed(segments, current) = << >> THEN << << >> >>
                         ELSE Closed(segments, current)
          /\ UNCHANGED verdict
  /\ UNCHANGED <<cmd, at, quote, current, judged>>

(* _detect_bypass comes before every rule, and its "ask" is final.         *)
Detect ==
  /\ pc = "detect"
  /\ IF Bypasses(cmd, segments)
     THEN pc' = "done" /\ verdict' = "ask"
     ELSE pc' = "judge" /\ UNCHANGED verdict
  /\ UNCHANGED <<cmd, at, quote, current, segments, judged>>

(* One round of the fold over the segments.                                *)
Judge ==
  /\ pc = "judge" /\ judged < Len(segments)
  /\ judged' = judged + 1
  /\ verdict' = Worse(verdict, SegmentVerdict(segments, judged + 1))
  /\ UNCHANGED <<cmd, pc, at, quote, current, segments>>

Answer ==
  /\ pc = "judge" /\ judged = Len(segments)
  /\ pc' = "done"
  /\ UNCHANGED <<cmd, at, quote, current, segments, judged, verdict>>

(* The verdict is printed. Any other state without a step is a deadlock.   *)
Answered == pc = "done" /\ UNCHANGED vars

Next == \/ Escape \/ SingleQuote \/ DoubleQuote \/ Separate \/ Collect
        \/ EndOfCommand \/ Detect \/ Judge \/ Answer \/ Answered

Spec == Init /\ [][Next]_vars

-----------------------------------------------------------------------------
(* What a command says, stated without scanning it. A reading cuts it into *)
(* lexemes: a bare atom, an escaped pair, or a quoted string. An inner     *)
(* double quote counts if an even number of backslashes stands before it.  *)
IsRun(s, k, n) == /\ \A j \in k - n..k - 1 : s[j] = "\\"
                  /\ n < k - 1 => s[k - n - 1] # "\\"
BackslashesBefore(s, k) == CHOOSE n \in 0..k - 1 : IsRun(s, k, n)
Ends(s, k) == s[k] = "\"" /\ BackslashesBefore(s, k) % 2 = 0

Bare(s)    == Len(s) = 1 /\ s[1] \notin {"\\", "'", "\""}
Pair(s)    == Len(s) = 2 /\ s[1] = "\\"
Single(s)  == /\ Len(s) > 1 /\ s[1] = "'"
              /\ {k \in 2..Len(s) : s[k] = "'"} = {Len(s)}
Double(s)  == /\ Len(s) > 1 /\ s[1] = "\""
              /\ {k \in 2..Len(s) : Ends(s, k)} = {Len(s)}

Lexeme(c, i, j) ==
  LET s == SubSeq(c, i + 1, j)
  IN  \/ Bare(s) \/ Pair(s) \/ Single(s) \/ Double(s)
      \/ s = <<"\\">> /\ j = Len(c)

(* The readings of c, each the set of places where it is cut: a prefix is  *)
(* a shorter prefix and one lexeme. A last backslash may stand alone.      *)
Readings(c) ==
  LET ofPrefix[j \in 0..Len(c)] ==
        IF j = 0 THEN {{0}}
        ELSE UNION { {cuts \cup {j} : cuts \in ofPrefix[i]} :
                     i \in {k \in 0..j - 1 : Lexeme(c, k, j)} }
  IN  ofPrefix[Len(c)]

(* The text before a bar, up to the bar before it, blanks stripped.        *)
PieceTo(c, bars, k) ==
  LET from == Max({b \in bars : b < k} \cup {0})
  IN  Strip(SubSeq(c, from + 1, k - 1))

(* A finite set of numbers in increasing order.                            *)
InOrder(S) ==
  [n \in 1..Cardinality(S) |->
     CHOOSE k \in S : Cardinality({e \in S : e <= k}) = n]

(* The text between the bare separators of a reading, and after the last   *)
(* one, without the pieces that are blank.                                 *)
Bars(c, cuts) == {k \in 1..Len(c) : c[k] \in Separators /\ {k - 1, k} \subseteq cuts}
PiecesTo(c, bars, stops) ==
  LET ends == InOrder({k \in stops : PieceTo(c, bars, k) # << >>})
  IN  [n \in 1..Len(ends) |-> PieceTo(c, bars, ends[n])]
Pieces(c, cuts) ==
  PiecesTo(c, Bars(c, cuts), Bars(c, cuts) \cup {Len(c) + 1})

(* The segments judged are those of the command's one reading; a command   *)
(* that has no reading is asked about. Guards the hand-written scanner of  *)
(* _split_segments (491-595) where quotes, escapes and operators meet.     *)
SegmentsAreTheReading ==
  LET pieces == Pieces(cmd, CHOOSE r \in Readings(cmd) : TRUE)
  IN  /\ pc = "detect" =>
           /\ Cardinality(Readings(cmd)) = 1
           /\ segments = IF pieces = << >> THEN << << >> >> ELSE pieces
      /\ pc = "done" /\ Readings(cmd) = {} => verdict = "ask"

(* A command is let through only when each of its segments can be read and *)
(* is a no-op, or is allow-listed and matched by no deny rule, and no      *)
(* shell is fed by another segment (UNKNOWN_POLICY not "allow"). Each      *)
(* segment counts as the command _resolve_command finds: a wrapper spelled *)
(* with a path or in capitals is a command of its own, and what it would   *)
(* run its arguments, so that nothing is said of that.                     *)
Vetted(seg) ==
  LET tokens == Tokenize(seg)
  IN  /\ Tokenizes(seg)
      /\ \/ Name(tokens) = "" /\ NoOp(tokens)
         \/ /\ Allowed(tokens)
            /\ \A k \in 1..Len(DenyRules) : ~Matches(DenyRules[k], tokens)
AllowedIsVetted ==
  pc = "done" /\ verdict = "allow" /\ cmd # << >> /\ UnknownPolicy # "allow" =>
    \E r \in Readings(cmd) :
      LET pieces == Pieces(cmd, r)
      IN  \A i \in 1..Len(pieces) : Vetted(pieces[i]) /\ (i > 1 => ~FedShell(pieces[i]))

(* A hard rule is never outvoted: if it matches some segment, whichever    *)
(* soft rules match too and whatever the other segments are, the command   *)
(* is denied, except that one with an opaque construct is only asked. The  *)
(* rules see the command _resolve_command finds, so not the one behind a   *)
(* wrapper spelled with a path or in capitals.                             *)
HardRuleDecides ==
  pc = "done" /\ ~Bypasses(cmd, segments) =>
    \A i \in 1..Len(segments), k \in 1..Len(DenyRules) :
      /\ quote = "none" /\ Tokenizes(segments[i]) /\ DenyRules[k].hard
      /\ Name(Tokenize(segments[i])) # "" /\ Matches(DenyRules[k], Tokenize(segments[i]))
      => verdict = "deny"

(* A segment that resolves to crontab with the one argument - is let       *)
(* through only after a segment that lists the old table                   *)
(* (_check_crontab_install, 1008-1022), whatever stands between the two.   *)
InstallsAreListedFirst ==
  pc = "done" /\ verdict = "allow" =>
    \A i \in 1..Len(segments) :
      LET installs == Tokenize(segments[i])
      IN  Name(installs) = "crontab" /\ Args(installs) = <<"-">> => ~Unlisted(segments, i)

=============================================================================
