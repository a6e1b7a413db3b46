---------------------------- MODULE MCClassifier ----------------------------
(* Instances of the classifier: every short string over the atoms that     *)
(* matter to the scanner, and every command of up to three segments taken  *)
(* from a list that meets each rule of the excerpted tables.               *)
EXTENDS Classifier

MCWords == {"ls", "rm", "-rf", "/", "f", "userdel", "reboot", "foo", "sh", "-c",
            "crontab", "-l", "-", "-r", "A=", "sudo", "env", "-u", "eval", ">/etc",
            "/usr/bin/env", "(crontab", "{", "-S", "etc", "glued/usr/bin/env"}
MCUngrouped == [w \in MCWords |-> IF w = "(crontab" THEN "crontab" ELSE w]
MCBaseName ==
  [w \in MCWords |-> IF w \in {"/usr/bin/env", "glued/usr/bin/env"} THEN "env"
                    ELSE IF w = ">/etc" THEN "etc"
                    ELSE IF w = "/" THEN "" ELSE w]
(* What is glued to a path keeps its base name; anything else that is      *)
(* glued together is a word no table has.                                  *)
MCGlue(token) ==
  IF Last(token) = "/usr/bin/env" THEN "glued/usr/bin/env" ELSE "glued"
MCAssignments == {"A="}
MCWrappers == {"sudo", "env"}
MCWrapperFlags == {"-u", "-l", "-r", "-c", "-rf", "-", "-S"}
MCArgFlags == [w \in MCWrappers |-> IF w = "sudo" THEN {"-u", "-r"} ELSE {}]

Rule(cmds, with, without, hard) ==
  [cmds |-> cmds, with |-> with, without |-> without, hard |-> hard]
(* rm_root, userdel, rm_recursive, rm_file, reboot, crontab_remove,        *)
(* write_system_path, in the order of the table.                           *)
MCDenyRules ==
  << Rule({"rm"}, {"-rf", "/"}, {}, TRUE), Rule({"userdel"}, {}, {}, TRUE),
     Rule({"rm"}, {"-rf"}, {}, FALSE), Rule({"rm"}, {"f"}, {"-rf"}, FALSE),
     Rule({"reboot"}, {}, {}, FALSE), Rule({"crontab"}, {"-r"}, {}, FALSE),
     Rule({}, {">/etc"}, {}, FALSE) >>
Allow(name, with, without, most) ==
  [cmd |-> name, with |-> with, without |-> without, most |-> most]
AnyNumber == 9
(* f is a script under AGENT_WORKDIR.                                      *)
MCAllowRules ==
  { Allow("ls", {}, {}, AnyNumber), Allow("env", {}, {}, AnyNumber), Allow("sh", {"f"}, {}, AnyNumber),
    Allow("crontab", {"-l"}, {"-r"}, AnyNumber), Allow("crontab", {}, {}, 0),
    Allow("crontab", {"-"}, {}, 1) }

(* Every string of up to five of these.                                    *)
Lexical == {"ls", "userdel", "sp", "nl", "\\", "'", "\"", ";", "&", "|"}
Short == UNION {[1..n -> Lexical] : n \in 0..5}

(* Segments that meet the rules.                                           *)
Parts ==
  { <<"ls">>, <<"rm", "sp", "-rf", "sp", "/">>, <<"rm", "sp", "-rf", "sp", "f">>,
    <<"rm", "sp", "'", "f", "'">>, <<"reboot", "sp", ">/etc">>,
    <<"userdel", "sp", ">/etc">>, <<"ls", "sp", ">/etc">>, <<"foo">>, <<"sh">>,
    <<"sh", "sp", "f">>, <<"crontab", "sp", "-l">>, <<"crontab", "sp", "-">>,
    <<"crontab", "sp", "-r">>, <<"A=">>, <<"sudo">>, <<"\"", "\"">>,
    <<"sudo", "sp", "-u", "sp", "f", "sp", "userdel">>, <<"ls", "sp", "eval">>,
    <<"env", "sp", "A=", "sp", "-u", "sp", "ls">>, <<"ls", "\\">>,
    <<"/usr/bin/env", "sp", "userdel">>, <<"env", "sp", "'", "-S", "'", "sp", "ls">>,
    <<"env", "sp", "-S", "sp", "ls">>, <<"(crontab", "sp", "-l">>, <<"crontab">>,
    <<"\"", "\"", "sp", "{">> }
Joined == UNION { {p, p \o <<"|">> \o q, p \o <<"&", "&">> \o q} : p, q \in Parts }
            \cup { p \o <<";">> \o q \o <<"sp", "|", "sp">> \o r : p, q, r \in Parts }
MCCommands == Short \cup Joined

(* The patterns for eval, for env -S and for a backslash in front of a     *)
(* command the deny rules name.                                            *)
HasEval(c)  == \E k \in 1..Len(c) : c[k] = "eval"
HasSplit(c) ==
  \E i \in 1..Len(c) : \E k \in i + 2..Len(c) :
    c[i] \in {"env", "/usr/bin/env"} /\ c[k - 1] \in Blank /\ c[k] = "-S"
HasEscape(c) ==
  \E k \in 2..Len(c) : /\ c[k - 1] = "\\" /\ c[k] \in {"rm", "userdel", "reboot"}
                       /\ k < Len(c) => c[k + 1] \notin Words
MCIsOpaque(c) == HasEval(c) \/ HasSplit(c) \/ HasEscape(c)
=============================================================================
