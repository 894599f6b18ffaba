------------------------------- MODULE Config -------------------------------
(***************************************************************************)
(* The configuration: internal/config/config.go, and the program that      *)
(* POST /api/processes describes (internal/web/server.go).                 *)
(*                                                                         *)
(* A file is a sequence of lines, a line a section header, an assignment   *)
(* or a "files" line with what its pattern can match.  A value is its      *)
(* comma-separated parts; a part is a word, perhaps with a name before an  *)
(* equals sign; a word is a number, perhaps with a unit, or a name.  What  *)
(* is a comment, or matches neither expression, is no line here.           *)
(***************************************************************************)
EXTENDS Integers, Sequences, FiniteSets, SequencesExt, Functions, TLC

CONSTANTS
  Paths,        \* of files
  MaxOpen,      \* files the daemon may have open: bounds nested includes
  Kilo,         \* 1024; small for TLC
  MaxInt,       \* 2^63 - 1; small for TLC
  Capital,      \* strings.ToUpper, where it differs from the identity
  Lower         \* strings.ToLower, where it differs from the identity

ASSUME ConfigAssumption ==
  MaxOpen \in Nat /\ Kilo \in Nat \ {0, 1} /\ MaxInt \in Nat

(* A file may be open beside the one that includes it, the largest default *)
(* is an int, a capital letter stays one, and so does a small letter.      *)
ASSUME RoomAssumption ==
  /\ MaxOpen >= 2 /\ MaxInt >= 9876 /\ MaxInt >= 50 * Kilo * Kilo
  /\ DOMAIN Capital \cap (Range(Capital) \cup {"TERM"}) = {}
  /\ DOMAIN Lower \cap (Range(Lower) \cup {"true", "false", "yes"}) = {}

-----------------------------------------------------------------------------
(* Values.                                                                 *)

Number(n, u) == [kind |-> "number", n |-> n, unit |-> u]
Name(s)      == [kind |-> "name", name |-> s, escapes |-> 0]
Text(w)      == <<[key |-> "", word |-> w]>>
Empty        == <<>>

IsInt(w) == w.kind = "number" /\ w.unit = ""

(* strconv, its error ignored: garbage is zero, what is too large the      *)
(* largest there is.                                                       *)
Clamp(n) == IF n > MaxInt THEN MaxInt ELSE IF n < -MaxInt - 1 THEN -MaxInt - 1 ELSE n
Atoi(t)  == IF Len(t) = 1 /\ IsInt(t[1].word) THEN Clamp(t[1].word.n) ELSE 0

Multiplier(u) == CASE u = "KB" -> Kilo
                   [] u = "MB" -> Kilo * Kilo
                   [] u = "GB" -> Kilo * Kilo * Kilo
                   [] OTHER    -> 1

(* An int64 after a multiplication.                                        *)
Wrap(n) == ((n + MaxInt + 1) % (2 * MaxInt + 2)) - MaxInt - 1

ParseBytes(t) ==
  IF Len(t) = 1 /\ t[1].word.kind = "number"
  THEN Wrap(Clamp(t[1].word.n) * Multiplier(t[1].word.unit))
  ELSE 0

(* The words in the other case.                                            *)
InCase(t, case) ==
  [i \in DOMAIN t |->
     IF t[i].word.kind = "name" /\ t[i].word.name \in DOMAIN case
     THEN [t[i] EXCEPT !.word.name = case[@]] ELSE t[i]]

ToUpper(t) == InCase(t, Capital)
ToLower(t) == InCase(t, Lower)

ParseBool(t) ==
  ToLower(t) \in {Text(Name("true")), Text(Number(1, "")), Text(Name("yes"))}

(* The members of a sequence that have these indices: so many of them come *)
(* up to the n-th.                                                         *)
Picked(seq, I) ==
  [n \in 1..Cardinality(I) |->
     seq[CHOOSE i \in I : Cardinality({h \in I : h <= i}) = n]]

ParseIntList(t) ==
  LET ints == Picked(t, {i \in DOMAIN t :
                t[i].key = "" /\ IsInt(t[i].word) /\ t[i].word.n = Clamp(t[i].word.n)})
  IN [i \in DOMAIN ints |-> ints[i].word.n]

(* The last pair with a key counts; a part without "=" is no pair.         *)
ParseEnvironment(t) ==
  [k \in {t[i].key : i \in DOMAIN t} \ {""} |->
     t[SelectLastInSeq(t, LAMBDA p : p.key = k)].word]

Policies ==
  [w \in {"true", "always", "false", "never", "unexpected", "on-failure"} |->
     CASE w \in {"true", "always"}           -> "always"
       [] w \in {"false", "never"}           -> "never"
       [] w \in {"unexpected", "on-failure"} -> "on-failure"]

(* A word that is no policy leaves the one there was.                      *)
ParsePolicy(t, old) ==
  IF Len(t) = 1 /\ t[1].word.kind = "name" /\ t[1].word.name \in DOMAIN Policies
  THEN Policies[t[1].word.name] ELSE old

(* What an assignment makes of a field: lists are appended to.             *)
Converted(kind, t, old) ==
  CASE kind = "text"   -> t
    [] kind = "bool"   -> ParseBool(t)
    [] kind = "int"    -> Atoi(t)
    [] kind = "policy" -> ParsePolicy(t, old)
    [] kind = "upper"  -> ToUpper(t)
    [] kind = "ints"   -> ParseIntList(t)
    [] kind = "bytes"  -> ParseBytes(t)
    [] kind = "env"    -> ParseEnvironment(t)
    [] kind = "list"   -> old \o t
    [] kind = "LIST"   -> old \o ToUpper(t)

-----------------------------------------------------------------------------
(* Fields: how each key is converted, and what it is when it is missing.   *)

SupervisorKeys ==
  [logfile |-> "text", loglevel |-> "text", pidfile |-> "text",
   nodaemon |-> "bool", minfds |-> "int", minprocs |-> "int",
   identifier |-> "text", socket_path |-> "text", socket_mode |-> "text",
   http_port |-> "int", http_host |-> "text", http_auth |-> "text",
   http_auth_token |-> "text"]

ProgramKeys ==
  [command |-> "text", directory |-> "text", user |-> "text",
   autostart |-> "bool", autorestart |-> "policy", startsecs |-> "int",
   startretries |-> "int", stopsignal |-> "upper", stopwaitsecs |-> "int",
   exitcodes |-> "ints", priority |-> "int", numprocs |-> "int",
   numprocs_start |-> "int", stdout_logfile |-> "text",
   stderr_logfile |-> "text", stdout_logfile_maxbytes |-> "bytes",
   stderr_logfile_maxbytes |-> "bytes", stdout_logfile_backups |-> "int",
   stderr_logfile_backups |-> "int", redirect_stderr |-> "bool",
   environment |-> "env"]

EmailKeys ==
  [enabled |-> "bool", smtp_host |-> "text", smtp_port |-> "int",
   username |-> "text", password |-> "text", from |-> "text",
   recipients |-> "list", use_tls |-> "bool", notify_on |-> "LIST"]

GroupKeys == [programs |-> "list", priority |-> "int"]

defaultSupervisorConfig ==
  [logfile |-> Text(Name("direktord.log")), loglevel |-> Text(Name("info")),
   pidfile |-> Text(Name("direktor.pid")), nodaemon |-> FALSE,
   minfds |-> 1024, minprocs |-> 200, identifier |-> Text(Name("direktor")),
   socket_path |-> Text(Name("direktor.sock")),
   socket_mode |-> Text(Number(700, "")), http_port |-> 9876,
   http_host |-> Text(Name("localhost")), http_auth |-> Empty,
   http_auth_token |-> Empty]

defaultProcessConfig ==
  [command |-> Empty, directory |-> Empty, user |-> Empty, autostart |-> TRUE,
   autorestart |-> "always", startsecs |-> 1, startretries |-> 3,
   stopsignal |-> Text(Name("TERM")), stopwaitsecs |-> 10, exitcodes |-> <<0>>,
   priority |-> 999, numprocs |-> 1, numprocs_start |-> 0,
   stdout_logfile |-> Empty, stderr_logfile |-> Empty,
   stdout_logfile_maxbytes |-> 50 * Kilo * Kilo,
   stderr_logfile_maxbytes |-> 50 * Kilo * Kilo,
   stdout_logfile_backups |-> 10, stderr_logfile_backups |-> 10,
   redirect_stderr |-> FALSE, environment |-> <<>>]

noEmailConfig ==
  [enabled |-> FALSE, smtp_host |-> Empty, smtp_port |-> 0, username |-> Empty,
   password |-> Empty, from |-> Empty, recipients |-> Empty, use_tls |-> FALSE,
   notify_on |-> Empty]

noGroupConfig == [programs |-> Empty, priority |-> 0]

(* parseXSection(): the fields of old that kvs mentions, converted.        *)
Overlay(keys, old, kvs) ==
  [k \in DOMAIN keys |->
     IF k \in DOMAIN kvs THEN Converted(keys[k], kvs[k], old[k]) ELSE old[k]]

-----------------------------------------------------------------------------
(* Sections.  Spaces inside the brackets are kept: a section is spaced     *)
(* when they make it one that Parse() does not know, as in "[ program:x]"  *)
(* or "[email ]".  Behind the name of a program or a group they are a part *)
(* of that name.                                                           *)

Section(type, name) == [type |-> type, name |-> name, spaced |-> FALSE]
NoSection == Section("", "")
Include   == Section("include", "")

Globals == {Section("supervisord", ""), Section("direktord", "")}
Mails   == {Section("email", ""), Section("notify", "")}
IsLabel(s) ==
  \E b \in BOOLEAN : s = [type |-> s.type, name |-> s.name, spaced |-> b]
Named(s, type) == s.type = type /\ ~s.spaced

Put(f, k, v) == [x \in DOMAIN f \cup {k} |-> IF x = k THEN v ELSE f[x]]

NoConfig == [supervisor |-> defaultSupervisorConfig, email |-> noEmailConfig,
             programs |-> <<>>, groups |-> <<>>]

(* Variant: the mail settings start a configuration of their own.          *)
Dispatch_MailFirst(cfg, s, kvs) ==
  CASE s \in Globals -> [cfg EXCEPT !.supervisor = Overlay(SupervisorKeys, @, kvs)]
    [] s \in Mails -> [cfg EXCEPT !.supervisor = defaultSupervisorConfig,
                                  !.email = Overlay(EmailKeys, @, kvs)]
    [] Named(s, "program") -> [cfg EXCEPT !.programs =
         Put(@, s.name, Overlay(ProgramKeys, defaultProcessConfig, kvs))]
    [] OTHER -> cfg

(* One turn of the loop in Parse().                                        *)
Dispatch(cfg, s, kvs) ==
  CASE s \in Globals -> [cfg EXCEPT !.supervisor = Overlay(SupervisorKeys, @, kvs)]
    [] s \in Mails   -> [cfg EXCEPT !.email = Overlay(EmailKeys, @, kvs)]
    [] Named(s, "program") -> [cfg EXCEPT !.programs =
         Put(@, s.name, Overlay(ProgramKeys, defaultProcessConfig, kvs))]
    [] Named(s, "group")   -> [cfg EXCEPT !.groups =
         Put(@, s.name, Overlay(GroupKeys, noGroupConfig, kvs))]
    [] OTHER -> cfg

InSomeOrder(S) ==
  LET order[n \in 0..Cardinality(S)] ==
        IF n = 0 THEN <<>>
        ELSE LET o == order[n - 1] IN Append(o, CHOOSE x \in S \ Range(o) : TRUE)
  IN order[Cardinality(S)]

(* The loop in Parse(), from cfg on, with the sections in this order.      *)
Visited(cfg, sections, order) ==
  LET after[i \in 0..Len(order)] ==
        IF i = 0 THEN cfg
        ELSE Dispatch(after[i - 1], order[i], sections[order[i]])
  IN after[Len(order)]

(* Go visits a map in any order; only sections that write to the same      *)
(* struct can tell, so the others are taken in one order, behind them.     *)
Configs(sections) ==
  LET shared == DOMAIN sections \cap (Globals \cup Mails)
      others == InSomeOrder(DOMAIN sections \ shared)
  IN {Visited(Visited(NoConfig, sections, order), sections, others) :
        order \in SetToSeqs(shared)}

-----------------------------------------------------------------------------
(* Files.  A line is one of                                                *)
Header(s)           == [line |-> "section", section |-> s]
Assign(key, value)  == [line |-> "key", key |-> key, value |-> value]
(* "files = pattern", where the pattern, with wildcards or without, can    *)
(* match the paths in names, in the order of Glob.                         *)
Files(names, wild)  == [line |-> "files", key |-> "files",
                        value |-> [names |-> names, wild |-> wild]]

(* What the expressions allow: every key has a character, and so have the  *)
(* brackets of a section.  Lines that match neither are not modelled.      *)
IsLine(l) ==
  \/ l.line = "section" /\ IsLabel(l.section) /\ l.section # NoSection
  \/ l.line = "key" /\ l.key # ""
  \/ l.line = "files" /\ l.key = "files" /\ l.value.names \in Seq(Paths)

(* A file on disk: there or not, readable or not.                          *)
File(lines) == [state |-> "file", lines |-> lines]
Absent      == [state |-> "absent", lines |-> <<>>]
Locked      == [state |-> "locked", lines |-> <<>>]
IsFile(f)   == f.lines \in Seq(Range(f.lines)) /\ \A l \in Range(f.lines) : IsLine(l)

(* Values g laid over values f.                                            *)
Over(f, g) == [k \in DOMAIN f \cup DOMAIN g |-> IF k \in DOMAIN g THEN g[k] ELSE f[k]]

(* Variant: what was read first wins.                                      *)
Merge_First(a, b) ==
  [s \in DOMAIN a \cup DOMAIN b |->
     IF s \notin DOMAIN a THEN b[s] ELSE IF s \notin DOMAIN b THEN a[s] ELSE Over(b[s], a[s])]

(* The loops that lay one section map over another.                        *)
Merge(a, b) ==
  [s \in DOMAIN a \cup DOMAIN b |->
     IF s \notin DOMAIN a THEN b[s] ELSE IF s \notin DOMAIN b THEN a[s] ELSE Over(a[s], b[s])]

NoSections == <<>>
Fails      == [ok |-> FALSE, at |-> NoSection, sections |-> NoSections]
Begins     == [ok |-> TRUE, at |-> NoSection, sections |-> NoSections]

(* filepath.Glob, when so many more files may be opened: it ignores that   *)
(* it cannot list a directory; without wildcards it only looks whether the *)
(* name exists.  The patterns are well-formed: Glob refuses any other.     *)
Globbed(disk, pattern, left, p) ==
  (pattern.wild => left > 0) /\ disk[p].state # "absent"

(* One turn of the loop in handleInclude(): the file at p was parsed as    *)
(* sub.  An error is an error.                                             *)
Matched(disk, pattern, left, acc, p, sub) ==
  IF ~Globbed(disk, pattern, left, p) THEN acc
  ELSE IF acc.ok /\ sub.ok THEN [acc EXCEPT !.sections = Merge(@, sub.sections)]
  ELSE Fails

(* What parseINI() makes of each path is in parsed, with a file less to    *)
(* open: the one that includes them stays open.                            *)
handleInclude(disk, pattern, left, parsed) ==
  LET names == pattern.names
      result[i \in 0..Len(names)] ==
        IF i = 0 THEN Begins
        ELSE Matched(disk, pattern, left, result[i - 1], names[i], parsed[names[i]])
  IN result[Len(names)]

(* One turn of the loop in parseINI().                                     *)
Scan(disk, left, parsed, acc, l) ==
  CASE ~acc.ok -> acc
    [] acc.ok /\ l.line = "section" ->
         [acc EXCEPT !.at = l.section, !.sections = Merge(@, [s \in {l.section} |-> <<>>])]
    [] acc.ok /\ l.line = "files" /\ acc.at = Include ->
         LET sub == handleInclude(disk, l.value, left, parsed)
         IN IF sub.ok THEN [acc EXCEPT !.sections = Merge(@, sub.sections)] ELSE Fails
    [] acc.ok /\ l.line # "section" /\ acc.at = NoSection -> acc
    [] OTHER -> [acc EXCEPT !.sections =
                    Merge(@, [s \in {acc.at} |-> [k \in {l.key} |-> l.value]])]

Scanned(disk, left, parsed, lines) ==
  LET after[i \in 0..Len(lines)] ==
        IF i = 0 THEN Begins ELSE Scan(disk, left, parsed, after[i - 1], lines[i])
  IN after[Len(lines)]

(* parseINI() of every path on a disk.                                     *)
ParseINI(disk) ==
  LET parse[left \in 0..MaxOpen] ==
        [path \in Paths |->
           IF left = 0 \/ disk[path].state # "file" THEN Fails
           ELSE Scanned(disk, left - 1, parse[left - 1], disk[path].lines)]
  IN parse[MaxOpen]

(* What Parse() may return: the configurations, or none for an error.      *)
Parse(disk, path) ==
  LET ini == ParseINI(disk)[path]
  IN IF ini.ok THEN Configs(ini.sections) ELSE {}

-----------------------------------------------------------------------------
(* POST /api/processes: a request gives some keys, the values have types.  *)

webDefaults ==
  [command |-> Empty, directory |-> Empty, user |-> Empty, autostart |-> TRUE,
   autorestart |-> "always", startsecs |-> 1, startretries |-> 3,
   stopsignal |-> Text(Name("TERM")), stopwaitsecs |-> 10, exitcodes |-> <<0>>,
   priority |-> 999, numprocs |-> 1, numprocs_start |-> 0,
   stdout_logfile |-> Empty, stderr_logfile |-> Empty,
   stdout_logfile_maxbytes |-> 50 * Kilo * Kilo,
   stderr_logfile_maxbytes |-> 50 * Kilo * Kilo,
   stdout_logfile_backups |-> 10, stderr_logfile_backups |-> 10,
   redirect_stderr |-> FALSE, environment |-> <<>>]

AddProcessRequest ==
  {"command", "directory", "user", "autostart", "autorestart", "startsecs",
   "startretries", "stopsignal", "stopwaitsecs", "stdout_logfile",
   "stderr_logfile", "environment", "redirect_stderr"}

handleAddProcess(req) ==
  [k \in DOMAIN ProgramKeys |->
     IF k \notin DOMAIN req THEN webDefaults[k]
     ELSE IF k = "autorestart" /\ req[k] \notin {"always", "on-failure", "never"}
     THEN webDefaults[k] ELSE req[k]]
=============================================================================
