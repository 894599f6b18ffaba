------------------------------- MODULE Convert -------------------------------
(***************************************************************************)
(* scripts/convert-supervisor: a program that reads a configuration tree   *)
(* with config.Parse, reads it again with a reader of its own to warn of   *)
(* what Direktor has no use for, and writes a native tree: direktor.conf   *)
(* and one file per program and per group in conf.d.                       *)
(*                                                                         *)
(* It runs beside an administrator who edits the source, its writes may    *)
(* fail half way, it may be killed, and it is run again over what the last *)
(* run left.                                                               *)
(***************************************************************************)
EXTENDS Config

CONSTANTS
  Main,         \* the source file it is given
  Sources,      \* trees the source may be: functions from paths to files
  Edits,        \* what the administrator may change, functions of that kind
  Stems,        \* names of files in conf.d, a sequence in their order
  Names,        \* program, group and variable names, in byte order
  Safe,         \* fileSafeName(), from names to stems
  Quoted,       \* words with a quote or a backslash in them
  MaxRuns,      \* bound: runs of the converter
  MaxEdits      \* bound: edits of the source

VARIABLES
  disk,         \* every file
  pc,           \* where the converter is
  cfg,          \* what config.Parse returned
  raw,          \* what its own reader found: sections, warnings
  todo,         \* the files that writeOutput() has still to write
  steady,       \* history: the source is what this run parsed
  runs, edits   \* history: so many of them

vars == <<disk, pc, cfg, raw, todo, steady, runs, edits>>

OutMain == <<"out", "direktor.conf">>
Confd(stem) == <<"conf.d", stem>>

ASSUME ConvertAssumption ==
  /\ MaxRuns \in Nat /\ MaxEdits \in Nat
  /\ IsFiniteSet(Paths) /\ Names \in Seq(Range(Names)) /\ Stems \in Seq(Range(Stems))
  /\ {OutMain} \cup {Confd(Stems[i]) : i \in DOMAIN Stems} \subseteq Paths
  /\ Main \in Paths
  /\ \A t \in Sources \cup Edits : DOMAIN t \subseteq Paths /\ OutMain \notin DOMAIN t
  /\ \A t \in Sources \cup Edits : \A p \in DOMAIN t : IsFile(t[p])

-----------------------------------------------------------------------------
(* Rendering.                                                              *)

(* The names in S, in their order.                                         *)
Sorted(S) == Picked(Names, {i \in DOMAIN Names : Names[i] \in S})

formatBool(b) == Text(Name(IF b THEN "true" ELSE "false"))
formatInt(n)  == Text(Number(n, ""))

formatBytes(v) ==
  CASE v = 0                        -> formatInt(0)
    [] v % Multiplier("GB") = 0     -> Text(Number(v \div Multiplier("GB"), "GB"))
    [] v % Multiplier("MB") = 0     -> Text(Number(v \div Multiplier("MB"), "MB"))
    [] v % Multiplier("KB") = 0     -> Text(Number(v \div Multiplier("KB"), "KB"))
    [] OTHER                        -> formatInt(v)

joinInts(s) == [i \in DOMAIN s |-> [key |-> "", word |-> Number(s[i], "")]]

(* Quotes and backslashes are escaped; nothing undoes that when reading.   *)
escapeEnvValue(w) ==
  IF w.kind = "name" /\ w.name \in Quoted THEN [w EXCEPT !.escapes = @ + 1] ELSE w

formatEnvironment(e) ==
  LET keys == Sorted(DOMAIN e)
  IN [i \in DOMAIN keys |-> [key |-> keys[i], word |-> escapeEnvValue(e[keys[i]])]]

Rendered(kind, v) ==
  CASE kind \in {"text", "upper", "list", "LIST"} -> v
    [] kind = "bool"   -> formatBool(v)
    [] kind = "int"    -> formatInt(v)
    [] kind = "policy" -> Text(Name(v))
    [] kind = "ints"   -> joinInts(v)
    [] kind = "bytes"  -> formatBytes(v)
    [] kind = "env"    -> formatEnvironment(v)

(* Keys that are left out when they are not set.                           *)
Optional == {"http_auth", "http_auth_token", "smtp_host", "smtp_port", "username",
             "password", "from", "recipients", "notify_on", "directory", "user",
             "stdout_logfile", "stderr_logfile", "environment"}

Unset(kind, v) == IF kind = "int" THEN v = 0 ELSE v = <<>>

renderSection(s, keys, fields) ==
  LET shown == InSomeOrder({k \in DOMAIN keys :
                           ~(k \in Optional /\ Unset(keys[k], fields[k]))})
  IN <<Header(s)>> \o
     [i \in DOMAIN shown |-> Assign(shown[i], Rendered(keys[shown[i]], fields[shown[i]]))]

(* Variant: the include is written for programs only.                      *)
renderMainConfig_NoGroups(c, r) ==
  renderSection(Section("direktord", ""), SupervisorKeys, c.supervisor)
  \o (IF r.sections \cap Mails # {} \/ c.email.enabled
      THEN renderSection(Section("email", ""), EmailKeys, c.email) ELSE <<>>)
  \o (IF DOMAIN c.programs # {}
      THEN <<Header(Include),
             Files([i \in DOMAIN Stems |-> Confd(Stems[i])], TRUE)>> ELSE <<>>)

renderMainConfig(c, r) ==
  renderSection(Section("direktord", ""), SupervisorKeys, c.supervisor)
  \o (IF r.sections \cap Mails # {} \/ c.email.enabled
      THEN renderSection(Section("email", ""), EmailKeys, c.email) ELSE <<>>)
  \o (IF DOMAIN c.programs # {} \/ DOMAIN c.groups # {}
      THEN <<Header(Include),
             Files([i \in DOMAIN Stems |-> Confd(Stems[i])], TRUE)>> ELSE <<>>)

programFile(n) == Confd(Safe[n])
groupFile(n)   == Confd("group-" \o Safe[n])

(* The files that writeOutput() writes, in its order.                      *)
Output(c, r) ==
  LET ps == Sorted(DOMAIN c.programs)
      gs == Sorted(DOMAIN c.groups)
  IN <<[path |-> OutMain, lines |-> renderMainConfig(c, r)]>>
     \o [i \in DOMAIN ps |-> [path |-> programFile(ps[i]),
           lines |-> renderSection(Section("program", ps[i]), ProgramKeys, c.programs[ps[i]])]]
     \o [i \in DOMAIN gs |-> [path |-> groupFile(gs[i]),
           lines |-> renderSection(Section("group", gs[i]), GroupKeys, c.groups[gs[i]])]]

-----------------------------------------------------------------------------
(* The reader of its own.  It trims section names, reads no file twice and *)
(* keeps, of what it reads, the names of the sections and the warnings.    *)

Trim(s) == [s EXCEPT !.spaced = FALSE]

Warning(path, s, key) == [path |-> path, section |-> s, key |-> key]

supervisorKeys ==
  {"logfile", "loglevel", "pidfile", "nodaemon", "minfds", "minprocs",
   "identifier", "socket_path", "socket_owner", "socket_mode", "http_port",
   "http_host", "http_auth", "http_auth_token"}
emailKeys ==
  {"enabled", "smtp_host", "smtp_port", "username", "password", "from",
   "recipients", "use_tls", "notify_on"}
programKeys ==
  {"command", "directory", "user", "autostart", "autorestart", "startsecs",
   "startretries", "stopsignal", "stopwaitsecs", "exitcodes", "priority",
   "numprocs", "numprocs_start", "stdout_logfile", "stderr_logfile",
   "stdout_logfile_maxbytes", "stderr_logfile_maxbytes",
   "stdout_logfile_backups", "stderr_logfile_backups", "redirect_stderr",
   "environment"}
groupKeys == {"programs", "priority"}

isUnsupportedSection(s) ==
  ~(s \in Globals \cup Mails \cup {Include} \/ s.type \in {"program", "group"})

(* Variant: one table for all sections.                                    *)
isSupportedKey_AnySection(s, key) ==
  key \in supervisorKeys \cup emailKeys \cup programKeys \cup groupKeys

isSupportedKey(s, key) ==
  \/ s \in Globals      /\ key \in supervisorKeys
  \/ s \in Mails        /\ key \in emailKeys
  \/ s = Include        /\ key = "files"
  \/ s.type = "program" /\ key \in programKeys
  \/ s.type = "group"   /\ key \in groupKeys

Starts(visited) ==
  [ok |-> TRUE, at |-> NoSection, sections |-> {}, warnings |-> {}, visited |-> visited]

(* What a file that was included adds to the one that includes it.         *)
mergeINI(acc, sub) ==
  [acc EXCEPT !.ok = sub.ok, !.visited = sub.visited,
              !.sections = @ \cup sub.sections, !.warnings = @ \cup sub.warnings]

(* The loop over the matches of an include.  What parseINIRecursive()      *)
(* makes of a path, when some were visited before, is in read.             *)
Follows(d, pattern, read, acc, p) ==
  IF acc.ok /\ Globbed(d, pattern, MaxOpen, p) THEN mergeINI(acc, read[<<p, acc.visited>>])
  ELSE acc

Followed(d, pattern, read, acc) ==
  LET names == pattern.names
      after[i \in 0..Len(names)] ==
        IF i = 0 THEN acc ELSE Follows(d, pattern, read, after[i - 1], names[i])
  IN after[Len(names)]

Warns(acc, ws) == [acc EXCEPT !.warnings = @ \cup ws]

(* One turn of the loop over the lines of a file.                          *)
Reads(d, path, read, acc, l) ==
  CASE ~acc.ok -> acc
    [] acc.ok /\ l.line = "section" ->
         LET s == Trim(l.section)
         IN Warns([acc EXCEPT !.at = s, !.sections = @ \cup {s}],
                  IF isUnsupportedSection(s) THEN {Warning(path, s, "")} ELSE {})
    [] acc.ok /\ l.line # "section" /\ acc.at = NoSection -> acc
    [] acc.ok /\ l.line = "files" /\ acc.at = Include -> Followed(d, l.value, read, acc)
    [] OTHER -> Warns(acc, IF isSupportedKey(acc.at, l.key) THEN {}
                           ELSE {Warning(path, acc.at, l.key)})

ReadThrough(d, path, read, visited) ==
  LET lines == d[path].lines
      after[i \in 0..Len(lines)] ==
        IF i = 0 THEN Starts(visited \cup {path})
        ELSE Reads(d, path, read, after[i - 1], lines[i])
  IN after[Len(lines)]

(* A file that is being read is not read again, so that no more of them    *)
(* are open at a time than there are paths: left is never too small.       *)
parseINIRecursive(d) ==
  LET read[left \in 0..Cardinality(Paths)] ==
        [a \in Paths \X SUBSET Paths |->
           IF a[1] \in a[2] THEN Starts(a[2])
           ELSE IF left = 0 \/ d[a[1]].state # "file" THEN [Starts(a[2]) EXCEPT !.ok = FALSE]
           ELSE ReadThrough(d, a[1], read[left - 1], a[2])]
  IN read[Cardinality(Paths)][<<Main, {}>>]

-----------------------------------------------------------------------------
(* The converter, its disk and the administrator.                          *)

NoRaw == [sections |-> {}, warnings |-> {}]

Init ==
  /\ \E t \in Sources : disk = Over([p \in Paths |-> Absent], t)
  /\ pc = "over" /\ cfg = NoConfig /\ raw = NoRaw /\ todo = <<>>
  /\ steady = FALSE /\ runs = 0 /\ edits = 0

Ends == pc' = "over" /\ cfg' = NoConfig /\ raw' = NoRaw /\ todo' = <<>>

(* run(): config.Parse.                                                    *)
Start ==
  /\ pc \in {"over", "done"} /\ runs < MaxRuns
  /\ runs' = runs + 1 /\ steady' = TRUE
  /\ \/ /\ cfg' \in Parse(disk, Main)
        /\ pc' = "inspect" /\ raw' = NoRaw /\ todo' = <<>>
     \/ Parse(disk, Main) = {} /\ Ends
  /\ UNCHANGED <<disk, edits>>

(* run(): parseINIWithWarnings reads the files again; MkdirAll.            *)
Inspect ==
  /\ pc = "inspect"
  /\ LET r == parseINIRecursive(disk)
     IN IF r.ok
        THEN /\ pc' = "write"
             /\ raw' = [sections |-> r.sections, warnings |-> r.warnings]
             /\ todo' = Output(cfg, raw') /\ UNCHANGED cfg
        ELSE Ends
  /\ UNCHANGED <<disk, steady, runs, edits>>

(* writeOutput(): one os.WriteFile, which truncates and then writes.       *)
WriteFile ==
  /\ pc = "write" /\ todo # <<>>
  /\ disk' = [disk EXCEPT ![todo[1].path] = File(todo[1].lines)]
  /\ todo' = Tail(todo)
  /\ UNCHANGED <<pc, cfg, raw, steady, runs, edits>>

(* It fails, or the converter is killed in it: nothing was written, or the *)
(* first lines were.                                                       *)
WriteFails ==
  /\ pc = "write" /\ todo # <<>>
  /\ \/ UNCHANGED disk
     \/ \E n \in 0..1 : disk' =
          [disk EXCEPT ![todo[1].path] = File(SubSeq(todo[1].lines, 1, n))]
  /\ Ends
  /\ UNCHANGED <<steady, runs, edits>>

(* The warnings are printed; exit code 0.                                  *)
Finish ==
  /\ pc = "write" /\ todo = <<>>
  /\ pc' = "done"
  /\ UNCHANGED <<disk, cfg, raw, todo, steady, runs, edits>>

(* The administrator changes the source.                                   *)
Edit ==
  /\ edits < MaxEdits
  /\ \E t \in Edits : disk' = Over(disk, t) /\ disk' # disk
  /\ edits' = edits + 1 /\ steady' = FALSE
  /\ UNCHANGED <<pc, cfg, raw, todo, runs>>

Next == Start \/ Inspect \/ WriteFile \/ WriteFails \/ Finish \/ Edit

Spec == Init /\ [][Next]_vars

-----------------------------------------------------------------------------
(* Properties.                                                             *)

(* The source from top to bottom, includes unfolded where they stand: a    *)
(* sequence of headers (with key "") and assignments, those before the     *)
(* first header of their file included.                                    *)
Entry(p, s, l) == [file |-> p, section |-> s,
                   key |-> IF l.line = "section" THEN "" ELSE l.key,
                   value |-> IF l.line = "section" THEN Empty ELSE l.value]

(* The section that line i of a file is in.                                *)
SectionAt(lines, i) ==
  LET headers == {j \in 1..i : lines[j].line = "section"}
  IN IF headers = {} THEN NoSection ELSE lines[Max(headers)].section

(* What line i of file p contributes; the files it includes read as below. *)
Part(d, p, left, below, i) ==
  LET l  == d[p].lines[i]
      at == SectionAt(d[p].lines, i)
  IN IF l.line = "files" /\ at = Include
     THEN FlattenSeq([j \in DOMAIN l.value.names |->
            IF Globbed(d, l.value, left, l.value.names[j])
            THEN below[l.value.names[j]] ELSE <<>>])
     ELSE <<Entry(p, at, l)>>

Reading(d) ==
  LET read[left \in 0..MaxOpen] ==
        [p \in Paths |->
           IF left = 0 THEN <<>>
           ELSE FlattenSeq([i \in DOMAIN d[p].lines |-> Part(d, p, left - 1, read[left - 1], i)])]
  IN read[MaxOpen]

(* What the parser makes of a tree, and the tree read from top to bottom.  *)
AsRead(sections, reading) ==
  /\ DOMAIN sections = {e.section : e \in Range(reading)} \ {NoSection}
  /\ \A s \in DOMAIN sections :
       /\ DOMAIN sections[s]
            = {e.key : e \in {f \in Range(reading) : f.section = s}} \ {""}
       /\ \A k \in DOMAIN sections[s] :
            \E i \in DOMAIN reading :
              /\ reading[i].section = s /\ reading[i].key = k
              /\ reading[i].value = sections[s][k]
              /\ \A j \in DOMAIN reading :
                   j > i => reading[j].section # s \/ reading[j].key # k

(* What the parser returns is the tree read from top to bottom, each       *)
(* include where it stands, the last assignment to a key winning, every    *)
(* section that has a header is there, and what stands before the first    *)
(* header of its file is not (config.go:351-385 and 394-420).              *)
MergeIsReadingOrder ==
  pc = "over" /\ runs = 0 /\ ParseINI(disk)[Main].ok =>
    AsRead(ParseINI(disk)[Main].sections, Reading(disk)[Main])

(* The order in which a Go map is visited does not show in what Parse      *)
(* returns, unless the tree has two sections for one struct (config.go:60).*)
OrderIsIrrelevant ==
  LET ini == ParseINI(disk)[Main]
  IN pc = "over" /\ runs = 0 /\ ini.ok =>
       \/ Globals \subseteq DOMAIN ini.sections
       \/ Mails \subseteq DOMAIN ini.sections
       \/ \A c, d \in Parse(disk, Main) : c = d

Written == {Output(cfg, raw)[i].path : i \in DOMAIN Output(cfg, raw)}

(* A daemon that is given the tree a successful run has written gets the   *)
(* configuration that the converter read, whatever earlier runs left       *)
(* behind: provided that nobody edited the source during the run (steady), *)
(* no two names share a file, no file is left of a program that has gone,  *)
(* and no variable holds a quote (main.go:125-181).                        *)
ConversionKeepsMeaning ==
  /\ pc = "done" /\ steady
  /\ Cardinality(Written) = Len(Output(cfg, raw))
  /\ \A i \in DOMAIN Stems : disk[Confd(Stems[i])] # Absent => Confd(Stems[i]) \in Written
  /\ \A n \in DOMAIN cfg.programs : \A k \in DOMAIN cfg.programs[n].environment :
       cfg.programs[n].environment[k] = escapeEnvValue(cfg.programs[n].environment[k])
  => Parse(disk, OutMain) = {cfg}

(* Where Parse() looks for a key.                                          *)
Heeded(s, key) ==
  \/ s \in Globals         /\ key \in DOMAIN SupervisorKeys \cup {""}
  \/ s \in Mails           /\ key \in DOMAIN EmailKeys \cup {""}
  \/ s = Include           /\ key \in {"files", ""}
  \/ Named(s, "program")   /\ key \in DOMAIN ProgramKeys \cup {""}
  \/ Named(s, "group")     /\ key \in DOMAIN GroupKeys \cup {""}

(* The tree that is written is not a part of the tree that is read: what   *)
(* the administrator wrote includes no file of it.                         *)
Generated(p) == p = OutMain \/ p[1] = "conf.d"

Apart ==
  /\ ~Generated(Main)
  /\ \A t \in Sources \cup Edits : \A p \in DOMAIN t : \A l \in Range(t[p].lines) :
       l.line = "files" /\ ~Generated(p) => \A n \in Range(l.value.names) : ~Generated(n)

(* What the administrator wrote can be written again: values are parts of  *)
(* words, variables, programs and groups have their place in the order of  *)
(* names, and the include that is written can match their files.           *)
IsWord(w) ==
  \/ w.kind = "number" /\ w = [kind |-> "number", n |-> w.n, unit |-> w.unit] /\ w.n \in Int
  \/ w.kind = "name" /\ w = [kind |-> "name", name |-> w.name, escapes |-> w.escapes]

IsPart(p) == p = [key |-> p.key, word |-> p.word] /\ IsWord(p.word)

IsValue(v) == v \in Seq(Range(v)) /\ \A p \in Range(v) : IsPart(p)

StemFiles == {Confd(Stems[i]) : i \in DOMAIN Stems}

Fits(l) ==
  /\ l.line = "key" =>
       IsValue(l.value) /\ {p.key : p \in Range(l.value)} \subseteq Range(Names) \cup {""}
  /\ l.line = "section" /\ Named(l.section, "program") =>
       l.section.name \in Range(Names) /\ programFile(l.section.name) \in StemFiles
  /\ l.line = "section" /\ Named(l.section, "group") =>
       l.section.name \in Range(Names) /\ groupFile(l.section.name) \in StemFiles

Expressible ==
  \A t \in Sources \cup Edits : \A p \in DOMAIN t : \A l \in Range(t[p].lines) : Fits(l)

(* A run that succeeds, and during which nobody edits the source (steady), *)
(* has warned, at the file where it stands, of every section and key that  *)
(* has no effect (main.go:14-19).  Three kinds slip through: a key before  *)
(* the first header of its file, which both readers skip (config.go:382,   *)
(* main.go:417-419), a section name with spaces inside the brackets, which *)
(* only the converter trims, and socket_owner, which nothing parses.       *)
NothingDroppedSilently ==
  pc = "done" /\ steady =>
    \A e \in Range(Reading(disk)[Main]) :
      \/ Heeded(e.section, e.key)
      \/ e.section = NoSection \/ e.section.spaced \/ e.key = "socket_owner"
      \/ Warning(e.file, e.section, e.key) \in raw.warnings
      \/ Warning(e.file, e.section, "") \in raw.warnings
=============================================================================
